---- MODULE Spec2Model ----
(***************************************************************************)
(* Model of the Gen3/Terra table consolidation utilities                   *)
(* (terra_data_util_update.py): chunked upload with per-chunk retry,       *)
(* duplicate removal with orphan prevention, column renaming, and the      *)
(* sequential multi-way join driven by a merge specification.              *)
(***************************************************************************)
EXTENDS Integers, Sequences, FiniteSets, TLC

VARIABLES
    \* ---- upload_entities_df / fapi_upload_entities
    df,              \* the table handed to upload_entities_df (sequence of rows)
    chunk_size,      \* its chunk_size parameter
    chunk_start,     \* loop variable chunk_start
    chunk_end,       \* loop variable chunk_end
    upload_pc,       \* position in upload_entities_df
    attempt_number,  \* tenacity's attempt counter inside fapi_upload_entities
    store_writes,    \* chunks committed to the table store, in write order
    store_calls,     \* every fapi.upload_entities call: [chunk, outcome]
    \* ---- _deduplicate_merge_data
    current_df,      \* the candidate table (mutated in place)
    merged_df,       \* the accumulator (None, or a table mutated in place)
    dedup_calls,     \* how many times _deduplicate_merge_data has run
    dedup_log,       \* logger records emitted by _deduplicate_merge_data
    dedup_input,     \* the arguments of the first call: [current_df, merged_df]
    \* ---- get_gen3_terra_table_to_df
    table_name,      \* its table_name argument
    table_df,        \* the frame get_terra_table_to_df returned (raw columns)
    renamed_columns, \* table_df.columns after the renaming loop (line 423)
    renamed_df,      \* the frame it returns (None before the call)
    \* ---- the table store, DataTableInfo and consolidate_to_df
    store,           \* the workspace's tables: name -> raw frame, None if absent
    data_table_info, \* DataTableInfo._data_table_info
    data_table_names,\* DataTableInfo._data_table_names
    merge_spec,      \* the merge specification passed to consolidate_to_df
    default_merge_parameters, \* local of consolidate_to_df
    step_merge_parameters, \* local merge_parameters of consolidate_to_df
    step,            \* index in merge_sequence of the next merge_info
    previous_row_count, \* local of consolidate_to_df
    join_pc,         \* position in consolidate_to_df
    raised,          \* the exception that ended the run, if any
    log,             \* logger records of the run
    store_reads,     \* calls made to the table store by the run
    step_trace,      \* per executed step: what it received and returned
    \* ---- consolidate_to_terra_table
    entity_name,     \* its entity_name argument
    consolidated_df, \* its local consolidated_df (None before line 349)
    terra_pc,        \* position in consolidate_to_terra_table
    run,             \* how many times consolidate_to_terra_table was called
    initial_store,   \* the store at the first call
    \* ---- get_terra_table_to_df under its @retry decorator
    fetch_pc,        \* position in get_terra_table_to_df
    fetch_attempt,   \* tenacity's attempt counter
    \* ---- callers of DataTableInfo, upload_entities_df and delete_terra_table
    last_call        \* the last call made: its arguments, what it returned or
                     \* raised, its store calls, and the registry before it

upload_vars == <<df, chunk_size, chunk_start, chunk_end, upload_pc,
                 attempt_number, store_writes, store_calls>>

dedup_only_vars == <<current_df, dedup_calls, dedup_log, dedup_input>>

dedup_vars == <<dedup_only_vars, merged_df>>

rename_vars == <<table_name, table_df, renamed_columns, renamed_df>>

registry_vars == <<data_table_info, data_table_names>>

join_only_vars == <<store, registry_vars, merge_spec, default_merge_parameters,
                    step_merge_parameters, step, previous_row_count, join_pc, raised, log,
                    store_reads, step_trace>>

terra_vars == <<entity_name, consolidated_df, terra_pc, run, initial_store>>

fetch_vars == <<fetch_pc, fetch_attempt>>

ext_vars == <<terra_vars, fetch_vars, last_call>>

vars == <<upload_vars, dedup_vars, rename_vars, join_only_vars, ext_vars>>

Min(a, b) == IF a < b THEN a ELSE b

RECURSIVE Concat(_)
Concat(ss) == IF ss = <<>> THEN <<>> ELSE Head(ss) \o Concat(Tail(ss))

\* F applied to the value of e, with e evaluated once
Let(e, F(_)) == CHOOSE y \in {F(v) : v \in {e}} : TRUE

RECURSIVE SelectIdx(_, _, _)
\* the positions i of 1..n, in increasing order, with keep[i]
SelectIdx(keep, i, n) ==
    IF i > n THEN <<>>
    ELSE (IF keep[i] THEN <<i>> ELSE <<>>) \o SelectIdx(keep, i + 1, n)

Range(f) == {f[i] : i \in DOMAIN f}

(***************************************************************************)
(* pandas.DataFrame, as far as the utilities use it: ordered column        *)
(* labels, one index label per row, and the rows' cells in column order.   *)
(* NaN is the cell value "NaN"; duplicated(), isin() and merge() all treat *)
(* it as equal to itself.  None is the absent accumulator.                 *)
(***************************************************************************)
None == [none |-> TRUE, columns |-> <<>>, index |-> <<>>, data |-> <<>>]

DataFrame(cols, rows) ==
    [none |-> FALSE, columns |-> cols,
     index |-> [i \in 1..Len(rows) |-> i - 1], data |-> rows]

\* df.shape[0]
RowCount(d) == Len(d.data)

\* name in df.columns
HasColumn(d, name) == \E c \in 1..Len(d.columns) : d.columns[c] = name

ColPos(d, name) ==
    CHOOSE c \in 1..Len(d.columns) :
        /\ d.columns[c] = name
        /\ \A b \in 1..(c - 1) : d.columns[b] # name

\* df[name] as the sequence of its values in row order
Column(d, name) == [i \in 1..RowCount(d) |-> d.data[i][ColPos(d, name)]]

\* series.duplicated(keep="first"): TRUE for every row after the first that
\* carries its value
DuplicatedSecondOnly(series) ==
    [i \in 1..Len(series) |->
        Cardinality({j \in 1..(i - 1) : series[j] = series[i]}) = 1]
DuplicatedKeepLast(series) ==
    [i \in 1..Len(series) |-> \E j \in (i + 1)..Len(series) : series[j] = series[i]]
Duplicated(series) ==
    [i \in 1..Len(series) |-> \E j \in 1..(i - 1) : series[j] = series[i]]

\* df[mask]: the rows where the boolean mask holds, index labels kept
MaskRows(d, mask) ==
    LET keep == SelectIdx(mask, 1, RowCount(d))
    IN  [d EXCEPT !.index = [k \in 1..Len(keep) |-> d.index[keep[k]]],
                  !.data = [k \in 1..Len(keep) |-> d.data[keep[k]]]]

\* df.drop(labels, inplace=True): drops every row whose index label is listed
DropLabels(d, labels) ==
    MaskRows(d, [i \in 1..RowCount(d) |-> d.index[i] \notin labels])

\* series.isin(values)
IsIn(series, values) == [i \in 1..Len(series) |-> series[i] \in Range(values)]

\* def get_entity_id_column_name(entity_type)
get_entity_id_column_name(entity_type) == entity_type \o "_entity_id"

(***************************************************************************)
(* The built-in merge specifications.  A step is a record with             *)
(* join_column and table_names, and join_type where the source gives one.  *)
(***************************************************************************)
SubjectPhenoTables ==
    <<"blood_pressure_test", "cardiac_mri", "demographic", "electrocardiogram_test",
      "exposure", "lab_result", "medical_history", "medication">>

GenoSteps ==
    << [join_column |-> "submitted_aligned_reads",
        table_names |-> <<"submitted_aligned_reads", "aligned_reads_index">>],
       [join_column |-> "read_group",
        table_names |-> <<"read_group", "submitted_unaligned_reads", "read_group_qc">>],
       [join_column |-> "aliquot",
        table_names |-> <<"aliquot", "submitted_cnv_array", "submitted_snp_array">>],
       [join_column |-> "sample", table_names |-> <<"sample">>] >>

StudyProjectProgramSteps ==
    << [join_column |-> "study", table_names |-> <<"study">>],
       [join_column |-> "project", table_names |-> <<"project">>],
       [join_column |-> "program", table_names |-> <<"program">>] >>

GEN3_GENO_PHENO_MERGE_SPEC ==
    [default_join_type |-> "outer",
     merge_sequence |->
        GenoSteps
        \o << [join_column |-> "subject",
               table_names |-> <<"subject">> \o SubjectPhenoTables] >>
        \o StudyProjectProgramSteps,
     final_index_source_column |-> "subject_submitter_id"]

GEN3_GENO_MERGE_SPEC ==
    [default_join_type |-> "outer",
     merge_sequence |->
        GenoSteps
        \o << [join_column |-> "subject", table_names |-> <<"subject">>] >>
        \o StudyProjectProgramSteps,
     final_index_source_column |-> "subject_submitter_id"]

GEN3_PHENO_MERGE_SPEC ==
    [default_join_type |-> "outer",
     merge_sequence |->
        << [join_column |-> "subject",
            table_names |-> <<"subject", "sample">> \o SubjectPhenoTables] >>
        \o StudyProjectProgramSteps,
     final_index_source_column |-> "subject_submitter_id"]

GEN3_USER_CUSTOM_MERGE_SPEC ==
    [default_join_type |-> "inner",
     merge_sequence |->
        GenoSteps
        \o << [join_column |-> "subject", join_type |-> "left",
               table_names |-> <<"subject">> \o SubjectPhenoTables] >>
        \o StudyProjectProgramSteps,
     final_index_source_column |-> "subject_submitter_id"]

BuiltinMergeSpecs ==
    {GEN3_GENO_PHENO_MERGE_SPEC, GEN3_GENO_MERGE_SPEC, GEN3_PHENO_MERGE_SPEC,
     GEN3_USER_CUSTOM_MERGE_SPEC}

(***************************************************************************)
(* Column Namer                                                            *)
(***************************************************************************)
\* The set literal of lines 528-553.  Line 542 has no comma after
\* "read_group_qc", so Python joins it with "reference_file" of line 543 into
\* one member.
GEN3_TABLE_NAMES ==
    {"aligned_reads_index", "aliquot", "blood_pressure_test", "cardiac_mri",
     "demographic", "electrocardiogram_test", "exposure", "germline_variation_index",
     "lab_result", "medical_history", "medication", "program", "project",
     "read_group", "read_group_qc" \o "reference_file", "reference_file_index",
     "sample", "simple_germline_variation", "study", "subject",
     "submitted_aligned_reads", "submitted_cnv_array", "submitted_snp_array",
     "submitted_unaligned_reads"}

\* df.rename(columns={current_column_name: new_column_name}, inplace=True):
\* every column that carries the current name at the time of the call is renamed
rename_column(columns, current_column_name, new_column_name) ==
    [c \in 1..Len(columns) |->
        IF columns[c] = current_column_name THEN new_column_name ELSE columns[c]]

RECURSIVE RenameLoop(_, _, _, _)
\* for column in columns[1:] (the raw names), renaming table_df in place
RenameLoop(current, raw, c, name) ==
    IF c > Len(raw) THEN current
    ELSE RenameLoop(
            IF raw[c] \in GEN3_TABLE_NAMES
            THEN rename_column(current, raw[c], raw[c] \o "_entity_id")
            ELSE rename_column(current, raw[c], name \o "_" \o raw[c]),
            raw, c + 1, name)

\* table_df.columns after lines 417-423
RenamedColumns(raw, name) ==
    RenameLoop(rename_column(raw, "entity:" \o name \o "_id", name \o "_entity_id"),
               raw, 2, name)

\* df.loc[:, ~df.columns.duplicated()]: of equally named columns the first stays
DropDuplicatedColumns(d) ==
    LET keep == SelectIdx([c \in 1..Len(d.columns) |->
                              \A b \in 1..(c - 1) : d.columns[b] # d.columns[c]],
                          1, Len(d.columns))
    IN  [d EXCEPT !.columns = [k \in 1..Len(keep) |-> d.columns[keep[k]]],
                  !.data = [i \in 1..Len(d.data) |->
                               [k \in 1..Len(keep) |-> d.data[i][keep[k]]]]]

\* get_gen3_terra_table_to_df, from the frame get_terra_table_to_df returned
get_gen3_terra_table_to_df(fetched, name) ==
    DropDuplicatedColumns([fetched EXCEPT !.columns = RenamedColumns(fetched.columns, name)])

(***************************************************************************)
(* pandas.DataFrame.merge(right, how=..., on=...) as the Join Engine calls *)
(* it: sort=False, suffixes=("_x", "_y").  A pair <<i, j>> is a result row *)
(* made of left row i and right row j; 0 stands for the missing side of an *)
(* unmatched row, filled with NaN.  For how="outer" the unmatched right    *)
(* rows follow the left rows (pandas before 2.2 with sort=False).          *)
(***************************************************************************)
NaN == "NaN"

\* the right rows whose key equals left row i's, in right order
MatchesOfLeft(left, right, on, i) ==
    SelectIdx([j \in 1..RowCount(right) |-> Column(right, on)[j] = Column(left, on)[i]],
              1, RowCount(right))

\* the left rows whose key equals right row j's, in left order
MatchesOfRight(left, right, on, j) ==
    SelectIdx([i \in 1..RowCount(left) |-> Column(left, on)[i] = Column(right, on)[j]],
              1, RowCount(left))

RECURSIVE LeftPairs(_, _, _, _, _)
LeftPairs(left, right, on, i, keep_unmatched) ==
    IF i > RowCount(left) THEN <<>>
    ELSE LET m == MatchesOfLeft(left, right, on, i)
         IN  (IF m = <<>>
              THEN (IF keep_unmatched THEN << <<i, 0>> >> ELSE <<>>)
              ELSE [k \in 1..Len(m) |-> <<i, m[k]>>])
             \o LeftPairs(left, right, on, i + 1, keep_unmatched)

RECURSIVE RightPairs(_, _, _, _, _)
RightPairs(left, right, on, j, only_unmatched) ==
    IF j > RowCount(right) THEN <<>>
    ELSE LET m == MatchesOfRight(left, right, on, j)
         IN  (IF m = <<>>
              THEN << <<0, j>> >>
              ELSE (IF only_unmatched THEN <<>> ELSE [k \in 1..Len(m) |-> <<m[k], j>>]))
             \o RightPairs(left, right, on, j + 1, only_unmatched)

MergePairsOuterAsInner(left, right, on, how) == LeftPairs(left, right, on, 1, FALSE)
MergePairs(left, right, on, how) ==
    CASE how = "inner" -> LeftPairs(left, right, on, 1, FALSE)
      [] how = "left"  -> LeftPairs(left, right, on, 1, TRUE)
      [] how = "right" -> RightPairs(left, right, on, 1, FALSE)
      [] how = "outer" -> LeftPairs(left, right, on, 1, TRUE)
                            \o RightPairs(left, right, on, 1, TRUE)

\* the columns of the result: the left columns, then the right columns
\* without the key; a name on both sides gets the suffixes
MergeColumns(left, right, on) ==
    LET rpos == SelectIdx([c \in 1..Len(right.columns) |-> right.columns[c] # on],
                          1, Len(right.columns))
    IN  [c \in 1..Len(left.columns) |->
            IF left.columns[c] # on /\ HasColumn(right, left.columns[c])
            THEN left.columns[c] \o "_x" ELSE left.columns[c]]
        \o [k \in 1..Len(rpos) |->
              IF HasColumn(left, right.columns[rpos[k]])
              THEN right.columns[rpos[k]] \o "_y" ELSE right.columns[rpos[k]]]

MergeRow(left, right, on, pair) ==
    LET i == pair[1]
        j == pair[2]
        rpos == SelectIdx([c \in 1..Len(right.columns) |-> right.columns[c] # on],
                          1, Len(right.columns))
    IN  [c \in 1..Len(left.columns) |->
            IF i # 0 THEN left.data[i][c]
            ELSE IF left.columns[c] = on THEN Column(right, on)[j] ELSE NaN]
        \o [k \in 1..Len(rpos) |-> IF j # 0 THEN right.data[j][rpos[k]] ELSE NaN]

\* merged_df.merge(current_df, **merge_parameters); raises KeyError when the
\* key is not a column of both frames
Merge(left, right, merge_parameters) ==
    LET on == merge_parameters.on
    IN  IF ~HasColumn(left, on) \/ ~HasColumn(right, on)
        THEN [raised |-> "KeyError", df |-> None]
        ELSE LET pairs == MergePairs(left, right, on, merge_parameters.how)
             IN  [raised |-> "no",
                  df |-> DataFrame(MergeColumns(left, right, on),
                                   [k \in 1..Len(pairs) |->
                                       MergeRow(left, right, on, pairs[k])])]

(***************************************************************************)
(* Deduplicator: _deduplicate_merge_data(merged_df, current_df,            *)
(* current_table_name, current_dedup_key).  Python mutates both frames in  *)
(* place and returns nothing; the operator returns the two frames as they  *)
(* are on return, the records logged, and whether a KeyError was raised.   *)
(***************************************************************************)
\* the rows of the accumulator that line 688-689 drops
\* (ids: common_key_values_for_dupes, keys: current_dups_values)
OrphanMaskMutant(merged, current_table_entity_id, ids, keys) ==
    IsIn(Column(merged, current_table_entity_id), keys)
OrphanMask(merged, current_table_entity_id, ids, keys) ==
    IsIn(Column(merged, current_table_entity_id), ids)

_deduplicate_merge_data(merged, current, current_table_name, current_dedup_key) ==
    IF ~HasColumn(current, current_dedup_key)
    THEN [raised |-> "KeyError", merged_df |-> merged, current_df |-> current,
          log |-> <<>>]
    ELSE
    LET current_dups == Duplicated(Column(current, current_dedup_key))
        current_dups_values == Column(MaskRows(current, current_dups), current_dedup_key)
        current_table_entity_id == get_entity_id_column_name(current_table_name)
    IN  IF Len(current_dups_values) = 0
        THEN [raised |-> "no", merged_df |-> merged, current_df |-> current,
              log |-> << [level |-> "debug", event |-> "No duplicates found",
                          table |-> current_table_name, column |-> current_dedup_key,
                          count |-> 0, ids |-> <<>>] >>]
        ELSE IF ~HasColumn(current, current_table_entity_id)
        THEN [raised |-> "KeyError", merged_df |-> merged, current_df |-> current,
              log |-> <<>>]
        ELSE
        LET common_key_values_for_dupes ==
                Column(MaskRows(current, current_dups), current_table_entity_id)
            dropped == DropLabels(current, Range(MaskRows(current, current_dups).index))
            warning == [level |-> "warning", event |-> "Removed duplicate entries",
                        table |-> current_table_name, column |-> current_dedup_key,
                        count |-> Len(current_dups_values), ids |-> current_dups_values]
        IN  IF ~merged.none /\ HasColumn(merged, current_table_entity_id)
            THEN LET mask == OrphanMask(merged, current_table_entity_id,
                                        common_key_values_for_dupes, current_dups_values)
                 IN  [raised |-> "no",
                      merged_df |-> DropLabels(merged, Range(MaskRows(merged, mask).index)),
                      current_df |-> dropped,
                      log |-> <<warning>>]
            ELSE [raised |-> "no", merged_df |-> merged, current_df |-> dropped,
                  log |-> <<warning>>]

(***************************************************************************)
(* The table store (fapi) as the utilities see it.  A store maps each      *)
(* table name to the raw frame Terra returns for it, or to None when the   *)
(* workspace has no such table.  net says which calls fail during the      *)
(* operation at hand: net.list_fails for fapi.list_entity_types, and       *)
(* net.fetch_fails, the tables for which every attempt of                  *)
(* fapi.get_entities_tsv answers with an error code.                       *)
(***************************************************************************)
\* no exception
NoException == [type |-> "none", table |-> "", cause |-> ""]

Exception(type, table, cause) == [type |-> type, table |-> table, cause |-> cause]

\* the order in which the store lists its tables
StoreTableOrder == <<"aliquot", "consolidated", "demographic", "sample", "subject">>

StoreTables == Range(StoreTableOrder)

Exists(st, name) == name \in DOMAIN st /\ ~st[name].none

\* the JSON of fapi.list_entity_types
ListEntityTypes(st) ==
    [name \in {t \in StoreTables : Exists(st, t)} |->
        [count |-> RowCount(st[name]),
         attributeNames |-> Tail(st[name].columns)]]

(***************************************************************************)
(* Table Registry: class DataTableInfo.  A class attribute is              *)
(* [none |-> TRUE] while it is None, else [none |-> FALSE, value |-> v].   *)
(***************************************************************************)
Unset == [none |-> TRUE, value |-> <<>>]

Set(v) == [none |-> FALSE, value |-> v]

\* Python's "not x" for None, an empty list or an empty dict
Falsy(x) == x.none \/ DOMAIN x.value = {}

\* a refresh that, on a failed listing, unsets the info map only and keeps
\* a name list
RefreshKeepingNames(st, net) ==
    LET info == ListEntityTypes(st)
        keys == SelectIdx([k \in 1..Len(StoreTableOrder) |->
                              StoreTableOrder[k] \in DOMAIN info],
                          1, Len(StoreTableOrder))
        names == Set([k \in 1..Len(keys) |-> StoreTableOrder[keys[k]]])
    IN  IF ~net.list_fails
        THEN [raised |-> NoException, info |-> Set(info), names |-> names,
              reads |-> << <<"list_entity_types">> >>]
        ELSE [raised |-> Exception("FireCloudServiceException", "", "list_entity_types"),
              info |-> Unset, names |-> names,
              reads |-> << <<"list_entity_types">> >>]

\* DataTableInfo.refresh()
DataTableInfo_refresh(st, net) ==
    IF ~net.list_fails
    THEN LET info == ListEntityTypes(st)
             keys == SelectIdx([k \in 1..Len(StoreTableOrder) |->
                                   StoreTableOrder[k] \in DOMAIN info],
                               1, Len(StoreTableOrder))
         IN  [raised |-> NoException,
              info |-> Set(info),
              names |-> Set([k \in 1..Len(keys) |-> StoreTableOrder[keys[k]]]),
              reads |-> << <<"list_entity_types">> >>]
    ELSE [raised |-> Exception("FireCloudServiceException", "", "list_entity_types"),
          info |-> Unset, names |-> Unset,
          reads |-> << <<"list_entity_types">> >>]

\* get_table_names that answers from a loaded cache whatever refresh says
GetTableNamesIgnoringRefresh(info, names, refresh, st, net) ==
    IF Falsy(names)
    THEN LET r == DataTableInfo_refresh(st, net)
         IN  [raised |-> r.raised, info |-> r.info, names |-> r.names, reads |-> r.reads,
              value |-> r.names.value]
    ELSE [raised |-> NoException, info |-> info, names |-> names, reads |-> <<>>,
          value |-> names.value]

\* DataTableInfo.get_table_names(refresh): value is the list returned
DataTableInfo_get_table_names(info, names, refresh, st, net) ==
    IF Falsy(names) \/ refresh
    THEN LET r == DataTableInfo_refresh(st, net)
         IN  [raised |-> r.raised, info |-> r.info, names |-> r.names, reads |-> r.reads,
              value |-> r.names.value]
    ELSE [raised |-> NoException, info |-> info, names |-> names, reads |-> <<>>,
          value |-> names.value]

\* what get_table_info returns for a table the registry does not list:
\* row_count, column_count and attributes are all None
NoTableInfo == [none |-> TRUE, row_count |-> -1, column_count |-> -1, attributes |-> <<>>]

\* lines 783-790 of get_table_info, on loaded class attributes
TableInfoOf(info, names, name) ==
    IF name \in Range(names.value)
    THEN [none |-> FALSE,
          row_count |-> info.value[name].count,
          column_count |-> Len(info.value[name].attributeNames) + 1,
          attributes |-> info.value[name].attributeNames]
    ELSE NoTableInfo

\* DataTableInfo.get_table_info(table_name, refresh)
DataTableInfo_get_table_info(info, names, name, refresh, st, net) ==
    IF Falsy(info) \/ refresh
    THEN LET r == DataTableInfo_refresh(st, net)
         IN  [raised |-> r.raised, info |-> r.info, names |-> r.names, reads |-> r.reads,
              value |-> IF r.raised.type = "none" THEN TableInfoOf(r.info, r.names, name)
                        ELSE NoTableInfo]
    ELSE [raised |-> NoException, info |-> info, names |-> names, reads |-> <<>>,
          value |-> TableInfoOf(info, names, name)]

\* DataTableInfo.get_data_table_info(refresh): value is the dict returned
DataTableInfo_get_data_table_info(info, names, refresh, st, net) ==
    IF Falsy(info) \/ refresh
    THEN LET r == DataTableInfo_refresh(st, net)
         IN  [raised |-> r.raised, info |-> r.info, names |-> r.names, reads |-> r.reads,
              value |-> r.info.value]
    ELSE [raised |-> NoException, info |-> info, names |-> names, reads |-> <<>>,
          value |-> info.value]

(***************************************************************************)
(* Table Fetcher: get_terra_table_to_df as a whole (its attempts are       *)
(* modelled where a claim is about them).                                  *)
(***************************************************************************)
get_terra_table_to_df(st, name, net) ==
    IF ~Exists(st, name)
    THEN [raised |-> Exception("FireCloudServiceException", name, "missing"),
          df |-> None, reads |-> << <<"get_terra_table_to_df", name>> >>]
    ELSE IF name \in net.fetch_fails
    THEN [raised |-> Exception("FireCloudServiceException", name, "transient"),
          df |-> None, reads |-> << <<"get_terra_table_to_df", name>> >>]
    ELSE [raised |-> NoException, df |-> st[name],
          reads |-> << <<"get_terra_table_to_df", name>> >>]

\* get_gen3_terra_table_to_df(BILLING_PROJECT_ID, WORKSPACE, table_name)
FetchGen3(st, name, net) ==
    LET f == get_terra_table_to_df(st, name, net)
    IN  IF f.raised.type # "none" THEN f
        ELSE [f EXCEPT !.df = get_gen3_terra_table_to_df(f.df, name)]

(***************************************************************************)
(* Merge Planner: the merge parameters of one step.  A dict is a function  *)
(* from its keys; "None" is Python's None as a parameter value.            *)
(***************************************************************************)
\* dict.update
Update(d, e) == [k \in DOMAIN d \cup DOMAIN e |-> IF k \in DOMAIN e THEN e[k] ELSE d[k]]

\* the keys of pandas' merge defaults that the utilities read or set
standard_pandas_default_parameters ==
    [how |-> "inner", on |-> "None", left_on |-> "None", right_on |-> "None"]

_create_combined_merge_parameters(defaults, merge_info) ==
    LET p1 == Update(standard_pandas_default_parameters, defaults)
        p2 == IF "merge_parameters" \in DOMAIN merge_info
              THEN Update(p1, merge_info.merge_parameters) ELSE p1
        p3 == IF "join_column" \in DOMAIN merge_info
              THEN [p2 EXCEPT !.on = merge_info.join_column] ELSE p2
    IN  IF "join_type" \in DOMAIN merge_info
        THEN [p3 EXCEPT !.how = merge_info.join_type] ELSE p3

_substitute_entity_id_column_name(merge_parameters) ==
    [k \in DOMAIN merge_parameters |->
        IF k \in {"on", "left_on", "right_on"} /\ merge_parameters[k] \notin {"None", ""}
        THEN get_entity_id_column_name(merge_parameters[k])
        ELSE merge_parameters[k]]

(***************************************************************************)
(* Join Engine: consolidate_tables_to_df(table_names, merge_parameters,    *)
(* initial_df).  The operators thread a record c through the function:     *)
(* c.df is merged_df, c.info and c.names the DataTableInfo attributes,     *)
(* c.log the records logged, c.reads the store calls, c.raised the         *)
(* exception that ended it.                                                *)
(***************************************************************************)
Raise(c, exception) == [c EXCEPT !.raised = exception]

\* lines 638-639 and 625-626: dedup of the "sample" table against merged
DedupIfSample(merged, current, name) ==
    IF name = "sample"
    THEN _deduplicate_merge_data(merged, current, "sample",
                                 get_entity_id_column_name("subject"))
    ELSE [raised |-> "no", merged_df |-> merged, current_df |-> current, log |-> <<>>]

\* whether the loop of line 632 joins or skips a table (line 634)
TableIsListed(name, names) == name \in Range(names)

\* lines 641-655, once current_df is fetched, renamed and deduplicated.  The
\* record of line 654 also notes merged_df.shape[0] as it was before the
\* merge of line 649 (rows_before), which the message does not print.
MergeInto(c, name, current, merge_parameters) ==
    Let(Merge(c.df, current, merge_parameters), LAMBDA m :
        IF m.raised # "no" THEN Raise(c, Exception(m.raised, name, "merge"))
        ELSE Let(DropDuplicatedColumns(m.df), LAMBDA joined :
                [c EXCEPT
                   !.df = joined,
                   !.log = c.log \o
                      << [level |-> "info", event |-> "Merged table",
                          table |-> name, on |-> merge_parameters.on,
                          how |-> merge_parameters.how,
                          rows |-> RowCount(joined),
                          columns |-> Len(joined.columns),
                          rows_before |-> RowCount(c.df)] >>]))

\* lines 637-655, for a table the registry lists
FetchAndJoin(c, name, merge_parameters, st, net) ==
    Let(FetchGen3(st, name, net), LAMBDA f :
        IF f.raised.type # "none"
        THEN [c EXCEPT !.reads = c.reads \o f.reads, !.raised = f.raised]
        ELSE Let(DedupIfSample(c.df, f.df, name), LAMBDA d :
                IF d.raised # "no"
                THEN [c EXCEPT !.reads = c.reads \o f.reads,
                               !.raised = Exception(d.raised, name, "dedup")]
                ELSE MergeInto([c EXCEPT !.reads = c.reads \o f.reads,
                                         !.df = d.merged_df,
                                         !.log = c.log \o d.log],
                               name, d.current_df, merge_parameters)))

\* one iteration of the loop of lines 632-655, for table_name = name
JoinOne(c, name, merge_parameters, st, net) ==
    Let(DataTableInfo_get_table_names(c.info, c.names, FALSE, st, net), LAMBDA g :
        IF g.raised.type # "none"
        THEN [c EXCEPT !.info = g.info, !.names = g.names,
                       !.reads = c.reads \o g.reads, !.raised = g.raised]
        ELSE IF ~TableIsListed(name, g.value)
        THEN [c EXCEPT !.info = g.info, !.names = g.names,
                       !.reads = c.reads \o g.reads,
                       !.log = c.log \o << [level |-> "info",
                                            event |-> "not found, ignored",
                                            table |-> name] >>]
        ELSE FetchAndJoin([c EXCEPT !.info = g.info, !.names = g.names,
                                    !.reads = c.reads \o g.reads],
                          name, merge_parameters, st, net))

RECURSIVE JoinLoop(_, _, _, _, _, _)
\* for table_name in table_names (from position k on)
JoinLoop(c, table_names, k, merge_parameters, st, net) ==
    IF k > Len(table_names) \/ c.raised.type # "none" THEN c
    ELSE Let(JoinOne(c, table_names[k], merge_parameters, st, net), LAMBDA next :
            JoinLoop(next, table_names, k + 1, merge_parameters, st, net))

\* lines 620-627: the seed when there is no accumulator yet
Seed(c, table_names, st, net) ==
    IF Len(table_names) < 2
    THEN Raise(c, Exception("AssertionError", "", "At least two table names are required."))
    ELSE Let(FetchGen3(st, table_names[1], net), LAMBDA f :
            IF f.raised.type # "none"
            THEN [c EXCEPT !.reads = c.reads \o f.reads, !.raised = f.raised]
            ELSE Let(DedupIfSample(None, f.df, table_names[1]), LAMBDA d :
                    IF d.raised # "no"
                    THEN [c EXCEPT !.reads = c.reads \o f.reads,
                                   !.raised = Exception(d.raised, table_names[1], "dedup")]
                    ELSE [c EXCEPT !.reads = c.reads \o f.reads,
                                   !.df = d.current_df,
                                   !.log = c.log \o d.log]))

consolidate_tables_to_df(table_names, merge_parameters, initial_df, info, names, st, net) ==
    Let([df |-> initial_df, info |-> info, names |-> names, log |-> <<>>,
         reads |-> <<>>, raised |-> NoException], LAMBDA c :
        IF initial_df.none
        THEN Let(Seed(c, table_names, st, net), LAMBDA seeded :
                IF seeded.raised.type # "none" THEN seeded
                ELSE JoinLoop(seeded, Tail(table_names), 1, merge_parameters, st, net))
        ELSE IF Len(table_names) < 1
        THEN Raise(c, Exception("AssertionError", "",
                                "At least one table names is required"))
        ELSE JoinLoop(c, table_names, 1, merge_parameters, st, net))

(***************************************************************************)
(* The parts of the state a specification does not exercise stay as the    *)
(* module leaves them at import time.                                      *)
(***************************************************************************)
UploadIdle ==
    /\ df = <<>>
    /\ chunk_size = 500
    /\ chunk_start = 0
    /\ chunk_end = 0
    /\ upload_pc = "idle"
    /\ attempt_number = 0
    /\ store_writes = <<>>
    /\ store_calls = <<>>

DedupOnlyIdle ==
    /\ current_df = None
    /\ dedup_calls = 0
    /\ dedup_log = <<>>
    /\ dedup_input = <<>>

DedupIdle == DedupOnlyIdle /\ merged_df = None

JoinIdle ==
    /\ store = <<>>
    /\ data_table_info = Unset
    /\ data_table_names = Unset
    /\ merge_spec = <<>>
    /\ default_merge_parameters = <<>>
    /\ step_merge_parameters = <<>>
    /\ step = 0
    /\ previous_row_count = -1
    /\ join_pc = "idle"
    /\ raised = NoException
    /\ log = <<>>
    /\ store_reads = <<>>
    /\ step_trace = <<>>

RenameIdle ==
    /\ table_name = ""
    /\ table_df = None
    /\ renamed_columns = <<>>
    /\ renamed_df = None

TerraIdle ==
    /\ entity_name = ""
    /\ consolidated_df = None
    /\ terra_pc = "idle"
    /\ run = 0
    /\ initial_store = <<>>

FetchIdle ==
    /\ fetch_pc = "idle"
    /\ fetch_attempt = 0

\* no call made yet
NoCall ==
    [op |-> "none", table |-> "", refresh |-> FALSE, responses |-> <<>>,
     raised |-> NoException, value |-> <<>>, reads |-> <<>>,
     info_before |-> Unset, names_before |-> Unset, store_before |-> <<>>]

CallerIdle == last_call = NoCall

ExtIdle == TerraIdle /\ FetchIdle /\ CallerIdle

(***************************************************************************)
(* Table Uploader                                                          *)
(***************************************************************************)
MaxRows == 5
MaxChunkSize == 6

\* stop=stop_after_attempt(3)
StopAfterAttemptMutant(n) == n >= 4
stop_after_attempt(n) == n >= 3

\* retry=retry_if_exception_type(FireCloudServerError)
retry_if_exception_type(outcome) == outcome = "FireCloudServerError"

\* What one call of fapi.upload_entities + fapi._check_response_code can do:
\* respond 200, respond with another code (FireCloudServerError), or fail
\* below the HTTP layer with an exception of another type.
UploadOutcomes == {"ok", "FireCloudServerError", "OtherException"}

\* a chunk end that stays at the chunk start
ChunkEndAtStart(start, size, row_count) == Min(start, row_count)
\* chunk_end = min(chunk_start + chunk_size, row_count)
ChunkEnd(start, size, row_count) == Min(start + size, row_count)

\* a bound of a Python slice over n rows: a negative bound counts from the
\* end, and a bound outside the rows is clipped
SliceIndex(i, n) == IF i < 0 THEN (IF i + n < 0 THEN 0 ELSE i + n) ELSE Min(i, n)

\* chunk_df = df.iloc[chunk_start:chunk_end]  (0-based, end exclusive)
ChunkDfSkippingFirst(d, start, end) == SubSeq(d, start + 2, Min(end, Len(d)))
ChunkDfMutant(d, start, end) == SubSeq(d, start + 1, Min(end + 1, Len(d)))
ChunkDf(d, start, end) == SubSeq(d, SliceIndex(start, Len(d)) + 1, SliceIndex(end, Len(d)))

UploadStart ==
    /\ \E n \in 0..MaxRows : df = [i \in 1..n |-> i]
    /\ chunk_size \in 1..MaxChunkSize
    /\ chunk_start = 0
    /\ chunk_end = 0
    /\ upload_pc = "loop"
    /\ attempt_number = 0
    /\ store_writes = <<>>
    /\ store_calls = <<>>

\* while chunk_start < row_count: compute the chunk and enter fapi_upload_entities
upload_entities_df_chunk ==
    /\ upload_pc = "loop"
    /\ chunk_start < Len(df)
    \* the model follows a loop until it has written more chunks than the
    \* table has rows, which no upload with chunk_size >= 1 does
    /\ Len(store_writes) <= Len(df)
    /\ chunk_end' = ChunkEnd(chunk_start, chunk_size, Len(df))
    /\ upload_pc' = "call"
    /\ attempt_number' = 1
    /\ UNCHANGED <<df, chunk_size, chunk_start, store_writes, store_calls>>
    /\ UNCHANGED <<dedup_vars, rename_vars, join_only_vars, ext_vars>>

\* one attempt of fapi_upload_entities under its @retry decorator
fapi_upload_entities ==
    /\ upload_pc = "call"
    /\ \E outcome \in UploadOutcomes :
        /\ store_calls' = Append(store_calls, [chunk |-> chunk_start, outcome |-> outcome])
        /\ IF outcome = "ok"
           THEN /\ store_writes' = Append(store_writes, ChunkDf(df, chunk_start, chunk_end))
                /\ chunk_start' = chunk_end
                /\ upload_pc' = "loop"
                /\ attempt_number' = 0
           ELSE /\ UNCHANGED <<store_writes, chunk_start>>
                /\ IF retry_if_exception_type(outcome) /\ ~stop_after_attempt(attempt_number)
                   THEN /\ attempt_number' = attempt_number + 1
                        /\ upload_pc' = "call"
                   ELSE /\ attempt_number' = attempt_number
                        /\ upload_pc' = "raised"
    /\ UNCHANGED <<df, chunk_size, chunk_end>>
    /\ UNCHANGED <<dedup_vars, rename_vars, join_only_vars, ext_vars>>

\* the loop condition fails: "Finished upload of data table to Terra."
upload_entities_df_finish ==
    /\ upload_pc = "loop"
    /\ ~(chunk_start < Len(df))
    /\ upload_pc' = "done"
    /\ UNCHANGED <<df, chunk_size, chunk_start, chunk_end, attempt_number,
                   store_writes, store_calls>>
    /\ UNCHANGED <<dedup_vars, rename_vars, join_only_vars, ext_vars>>

UploadNext ==
    \/ upload_entities_df_chunk
    \/ fapi_upload_entities
    \/ upload_entities_df_finish

UploadInit == UploadStart /\ DedupIdle /\ RenameIdle /\ JoinIdle /\ ExtIdle

SpecUpload == UploadInit /\ [][UploadNext]_vars

\* upload_entities_df with any chunk_size a caller may pass, zero and
\* negative included; the interpreter keeps running the loop, and every
\* call of the store returns or raises
ChunkSizes == (-1)..MaxChunkSize

AnyChunkSizeStart ==
    /\ \E n \in 0..MaxRows : df = [i \in 1..n |-> i]
    /\ chunk_size \in ChunkSizes
    /\ chunk_start = 0
    /\ chunk_end = 0
    /\ upload_pc = "loop"
    /\ attempt_number = 0
    /\ store_writes = <<>>
    /\ store_calls = <<>>

AnyChunkSizeInit == AnyChunkSizeStart /\ DedupIdle /\ RenameIdle /\ JoinIdle /\ ExtIdle

SpecUploadLive == AnyChunkSizeInit /\ [][UploadNext]_vars /\ WF_vars(UploadNext)

(***************************************************************************)
(* The Deduplicator on its own: _deduplicate_merge_data is run on a        *)
(* "sample" table and an accumulator, as consolidate_tables_to_df calls    *)
(* it, and then run again on the frames the first run left.                *)
(***************************************************************************)
MaxDedupRows == 3
MaxDedupCalls == 2

SampleId(i) == "a" \o ToString(i)
AliquotId(i) == "q" \o ToString(i)
SubjectIds == {"s1", "s2"}

\* a fetched and renamed "sample" table: entity ids are unique in the store
SampleFrames ==
    {DataFrame(<<"sample_entity_id", "subject_entity_id">>,
               [i \in 1..Len(keys) |-> <<SampleId(i), keys[i]>>]) :
        keys \in UNION {[1..n -> SubjectIds] : n \in 0..MaxDedupRows}}

\* accumulators: none yet, one without the sample_entity_id column, and those
\* whose rows reference samples in any combination
AccumulatorFrames ==
    {None}
    \cup {DataFrame(<<"aliquot_entity_id">>, [i \in 1..n |-> <<AliquotId(i)>>]) :
            n \in 0..MaxDedupRows}
    \cup {DataFrame(<<"aliquot_entity_id", "sample_entity_id">>,
                    [i \in 1..Len(refs) |-> <<AliquotId(i), refs[i]>>]) :
            refs \in UNION {[1..n -> {SampleId(j) : j \in 1..MaxDedupRows}] :
                              n \in 0..MaxDedupRows}}

DedupStart ==
    /\ current_df \in SampleFrames
    /\ merged_df \in AccumulatorFrames
    /\ dedup_calls = 0
    /\ dedup_log = <<>>
    /\ dedup_input = <<[current_df |-> current_df, merged_df |-> merged_df]>>

\* _deduplicate_merge_data(merged_df, current_df, "sample",
\*                         get_entity_id_column_name("subject"))
deduplicate_merge_data_call ==
    /\ dedup_calls < MaxDedupCalls
    /\ LET r == _deduplicate_merge_data(merged_df, current_df, "sample",
                                        get_entity_id_column_name("subject"))
       IN  /\ current_df' = r.current_df
           /\ merged_df' = r.merged_df
           /\ dedup_log' = dedup_log \o r.log
    /\ dedup_calls' = dedup_calls + 1
    /\ UNCHANGED dedup_input
    /\ UNCHANGED <<upload_vars, rename_vars, join_only_vars, ext_vars>>

DedupNext == deduplicate_merge_data_call

DedupInit == DedupStart /\ UploadIdle /\ RenameIdle /\ JoinIdle /\ ExtIdle

SpecDedup == DedupInit /\ [][DedupNext]_vars

(***************************************************************************)
(* The Column Namer on its own: get_gen3_terra_table_to_df renames the     *)
(* columns of one fetched table.                                           *)
(***************************************************************************)
MaxRawColumns == 2

RenameTables == {"sample", "read_group", "submitted_unaligned_reads"}

\* raw attribute names: references to other tables and plain attributes
RawColumnNames(name) ==
    {"subject", "sample", "read_group_qc", "submitter_id", name \o "_submitter_id"}

\* the header rows Terra can return for a table: the entity id first, then
\* distinct attribute names
RawHeaders(name) ==
    {<<"entity:" \o name \o "_id">> \o attrs :
        attrs \in {a \in UNION {[1..n -> RawColumnNames(name)] : n \in 0..MaxRawColumns} :
                      \A i, j \in 1..Len(a) : i # j => a[i] # a[j]}}

RenameStart ==
    /\ table_name \in RenameTables
    /\ \E header \in RawHeaders(table_name) :
          table_df = DataFrame(header, << [c \in 1..Len(header) |-> "v:" \o header[c]] >>)
    /\ renamed_columns = <<>>
    /\ renamed_df = None

get_gen3_terra_table_to_df_call ==
    /\ renamed_df.none
    /\ renamed_columns' = RenamedColumns(table_df.columns, table_name)
    /\ renamed_df' = get_gen3_terra_table_to_df(table_df, table_name)
    /\ UNCHANGED <<table_name, table_df>>
    /\ UNCHANGED <<upload_vars, dedup_vars, join_only_vars, ext_vars>>

RenameNext == get_gen3_terra_table_to_df_call

RenameInit == RenameStart /\ UploadIdle /\ DedupIdle /\ JoinIdle /\ ExtIdle

SpecRename == RenameInit /\ [][RenameNext]_vars


(***************************************************************************)
(* consolidate_to_df run on a workspace: a store holding some of the       *)
(* tables aliquot -> sample -> subject <- demographic, and a               *)
(* caller-supplied merge specification.                                    *)
(***************************************************************************)
MaxStoreRows == 2

SubjectId(i) == "s" \o ToString(i)

\* what the workspace may hold for each table (None: the table is absent)
SubjectTables ==
    {None} \cup
    {DataFrame(<<"entity:subject_id", "submitter_id">>,
               [i \in 1..n |-> <<SubjectId(i), "S" \o ToString(i)>>]) : n \in 1..2}

SampleTables ==
    {None} \cup
    {DataFrame(<<"entity:sample_id", "subject">>,
               [i \in 1..Len(refs) |-> <<SampleId(i), refs[i]>>]) :
        refs \in UNION {[1..n -> {SubjectId(1), SubjectId(2)}] : n \in 1..MaxStoreRows}}

AliquotTables ==
    {None} \cup
    {DataFrame(<<"entity:aliquot_id", "sample">>,
               [i \in 1..Len(refs) |-> <<AliquotId(i), refs[i]>>]) :
        refs \in UNION {[1..n -> {SampleId(1), SampleId(2)}] : n \in 1..MaxStoreRows}}

DemographicTables ==
    {None} \cup
    {DataFrame(<<"entity:demographic_id", "subject">>,
               [i \in 1..n |-> <<"d" \o ToString(i), SubjectId(i)>>]) : n \in 1..2}

Stores ==
    {[aliquot |-> a, demographic |-> d, sample |-> b, subject |-> c] :
        a \in AliquotTables, d \in DemographicTables, b \in SampleTables,
        c \in SubjectTables}

\* merge specifications a caller may pass; "study" is a table the workspace
\* never holds
ModelMergeSpecs ==
    { [default_join_type |-> "outer",
       merge_sequence |->
          << [join_column |-> "subject",
              table_names |-> <<"subject", "sample", "demographic">>],
             [join_column |-> "study", table_names |-> <<"study">>] >>,
       final_index_source_column |-> "subject_submitter_id"],
      [default_join_type |-> "outer",
       merge_sequence |->
          << [join_column |-> "sample", table_names |-> <<"aliquot", "study", "sample">>],
             [join_column |-> "subject", table_names |-> <<"subject">>],
             [join_column |-> "study", table_names |-> <<"study">>] >>,
       final_index_source_column |-> "subject_submitter_id"],
      [default_join_type |-> "inner",
       merge_sequence |->
          << [join_column |-> "subject", join_type |-> "left",
              table_names |-> <<"sample", "subject">>],
             [join_column |-> "sample", table_names |-> <<"aliquot">>] >>,
       final_index_source_column |-> "subject_submitter_id"],
      [merge_sequence |->
          << [join_column |-> "sample", table_names |-> <<"sample", "aliquot">>],
             [join_column |-> "subject", table_names |-> <<"subject", "demographic">>] >>,
       final_index_source_column |-> "sample_entity_id"] }

\* which store calls fail while one step runs
Nets == [list_fails : BOOLEAN, fetch_fails : {{}} \cup {{t} : t \in StoreTables}]

AllUp == [list_fails |-> FALSE, fetch_fails |-> {}]

JoinStart ==
    /\ store \in Stores
    /\ data_table_info = Unset
    /\ data_table_names = Unset
    /\ merge_spec \in ModelMergeSpecs
    /\ default_merge_parameters = <<>>
    /\ step_merge_parameters = <<>>
    /\ step = 0
    /\ previous_row_count = -1
    /\ join_pc = "start"
    /\ raised = NoException
    /\ log = <<>>
    /\ store_reads = <<>>
    /\ step_trace = <<>>
    /\ merged_df = None

\* lines 576-581.  The local default_merge_parameters is the dict object of
\* the specification's key default_merge_parameters when it has one, so the
\* assignment of line 578 writes into the caller's specification.
consolidate_to_df_start ==
    /\ join_pc = "start"
    /\ LET d == IF "default_merge_parameters" \in DOMAIN merge_spec
                THEN merge_spec.default_merge_parameters ELSE [how |-> "outer"]
       IN  default_merge_parameters' =
              IF "default_join_type" \in DOMAIN merge_spec
              THEN Update(d, [how |-> merge_spec.default_join_type]) ELSE d
    /\ merge_spec' = IF "default_merge_parameters" \in DOMAIN merge_spec
                     THEN [merge_spec EXCEPT !.default_merge_parameters =
                                                default_merge_parameters']
                     ELSE merge_spec
    /\ merged_df' = None
    /\ previous_row_count' = -1
    /\ step' = 1
    /\ join_pc' = "loop"
    /\ UNCHANGED <<store, registry_vars, step_merge_parameters, raised, log,
                   store_reads, step_trace>>
    /\ UNCHANGED <<upload_vars, dedup_only_vars, rename_vars, ext_vars>>

\* the merge_info the loop of line 582 handles at position i
MergeInfoReversed(spec, i) == spec.merge_sequence[Len(spec.merge_sequence) + 1 - i]
MergeInfoAt(spec, i) == spec.merge_sequence[i]

\* lines 583-584: the merge parameters of a step
MergeParametersOf(defaults, merge_info) ==
    _substitute_entity_id_column_name(
        _create_combined_merge_parameters(defaults, merge_info))

\* the accumulator line 585 passes to consolidate_tables_to_df
StepInput(accumulator) == accumulator

\* one iteration of the loop of lines 582-592
consolidate_to_df_step ==
    /\ join_pc = "loop"
    /\ step <= Len(merge_spec.merge_sequence)
    /\ \E net \in Nets, merge_info \in {MergeInfoAt(merge_spec, step)} :
        \E parameters \in {MergeParametersOf(default_merge_parameters, merge_info)} :
        \E r \in {consolidate_tables_to_df(
                      merge_info.table_names, parameters, StepInput(merged_df),
                      data_table_info, data_table_names, store, net)} :
        LET grew == previous_row_count # -1 /\ previous_row_count < RowCount(r.df)
        IN  /\ step_merge_parameters' = parameters
            /\ data_table_info' = r.info
            /\ data_table_names' = r.names
            /\ store_reads' = store_reads \o r.reads
            /\ IF r.raised.type # "none"
               THEN /\ raised' = r.raised
                    /\ join_pc' = "raised"
                    /\ log' = log \o r.log
                    /\ UNCHANGED <<merged_df, previous_row_count, step, step_trace>>
               ELSE /\ merged_df' = r.df
                    /\ log' = log \o r.log \o
                         (IF grew
                          THEN << [level |-> "warning",
                                   event |-> "Row count increased unexpectedly",
                                   n |-> RowCount(r.df) - previous_row_count] >>
                          ELSE <<>>)
                    /\ previous_row_count' = RowCount(r.df)
                    /\ step' = step + 1
                    /\ step_trace' = Append(step_trace,
                          [merge_info |-> merge_info, initial_df |-> StepInput(merged_df),
                           result |-> r.df, log |-> r.log])
                    /\ UNCHANGED <<raised, join_pc>>
    /\ UNCHANGED <<store, merge_spec, default_merge_parameters>>
    /\ UNCHANGED <<upload_vars, dedup_only_vars, rename_vars, ext_vars>>

\* line 594: return merged_df
consolidate_to_df_return ==
    /\ join_pc = "loop"
    /\ step > Len(merge_spec.merge_sequence)
    /\ join_pc' = "done"
    /\ UNCHANGED <<store, registry_vars, merge_spec, default_merge_parameters,
                   step_merge_parameters, step,
                   previous_row_count, raised, log, store_reads, step_trace, merged_df>>
    /\ UNCHANGED <<upload_vars, dedup_only_vars, rename_vars, ext_vars>>

JoinNext ==
    \/ consolidate_to_df_start
    \/ consolidate_to_df_step
    \/ consolidate_to_df_return

JoinInit == JoinStart /\ UploadIdle /\ DedupOnlyIdle /\ RenameIdle /\ ExtIdle

SpecJoin == JoinInit /\ [][JoinNext]_vars


(***************************************************************************)
(* The Merge Planner on its own: lines 576-578 and 583-584 of              *)
(* consolidate_to_df applied to merge specifications that give or omit     *)
(* each source of the join kind.                                           *)
(***************************************************************************)
Hows == {"inner", "outer", "left", "right"}

\* a merge_info with or without join_type and merge_parameters
PlanSteps ==
    LET base == [join_column |-> "subject", table_names |-> <<"subject", "sample">>]
        with_mp == {base} \cup
                   {Update(base, [merge_parameters |-> mp]) :
                       mp \in {[how |-> "right"], [sort |-> TRUE]}}
    IN  with_mp \cup {Update(m, [join_type |-> h]) : m \in with_mp, h \in Hows}

\* a merge specification with or without default_join_type and
\* default_merge_parameters
PlanSpecs ==
    LET base == {[merge_sequence |-> <<m>>,
                  final_index_source_column |-> "subject_entity_id"] : m \in PlanSteps}
        with_dmp == base \cup
                    {Update(b, [default_merge_parameters |-> d]) :
                        b \in base, d \in {[how |-> "left"], [sort |-> TRUE]}}
    IN  with_dmp \cup {Update(b, [default_join_type |-> h]) : b \in with_dmp, h \in Hows}

PlanStart ==
    /\ JoinIdle
    /\ merged_df = None

\* the call consolidate_to_df(merge_spec)
plan_call ==
    /\ join_pc = "idle"
    /\ merge_spec' \in PlanSpecs
    /\ join_pc' = "start"
    /\ UNCHANGED <<store, registry_vars, default_merge_parameters, step_merge_parameters,
                   step, previous_row_count, raised, log, store_reads, step_trace, merged_df>>
    /\ UNCHANGED <<upload_vars, dedup_only_vars, rename_vars, ext_vars>>

\* lines 582-584: the parameters of the step at hand
plan_step ==
    /\ join_pc = "loop"
    /\ step <= Len(merge_spec.merge_sequence)
    /\ step_merge_parameters' =
          MergeParametersOf(default_merge_parameters, MergeInfoAt(merge_spec, step))
    /\ step' = step + 1
    /\ UNCHANGED <<store, registry_vars, merge_spec, default_merge_parameters,
                   previous_row_count, join_pc, raised, log, store_reads, step_trace,
                   merged_df>>
    /\ UNCHANGED <<upload_vars, dedup_only_vars, rename_vars, ext_vars>>

PlanNext ==
    \/ plan_call
    \/ consolidate_to_df_start
    \/ plan_step

PlanInit == PlanStart /\ UploadIdle /\ DedupOnlyIdle /\ RenameIdle /\ ExtIdle

SpecPlan == PlanInit /\ [][PlanNext]_vars

(***************************************************************************)
(* consolidate_to_terra_table(merge_spec, entity_name): the consolidation  *)
(* of consolidate_to_df, the entity id column, the chunked upload and the  *)
(* size check.  The table store upserts by entity id: an uploaded row      *)
(* overwrites the attributes it carries of the entity with its id, or      *)
(* adds the entity; attributes the upload does not carry are left alone.   *)
(***************************************************************************)
\* the position of the first x in seq
Pos(seq, x) == CHOOSE i \in 1..Len(seq) : seq[i] = x /\ \A j \in 1..(i - 1) : seq[j] # x

\* fapi.upload_entities of one row under the header columns
UpsertRow(table, columns, row) ==
    LET Fresh(c) == c \notin Range(table.columns)
        all == table.columns \o SelectSeq(columns, Fresh)
        Carried(k) == all[k] \in Range(columns)
        hit == {i \in 1..Len(table.data) : table.data[i][1] = row[1]}
        Old(i, k) == IF k <= Len(table.columns) THEN table.data[i][k] ELSE ""
        Entity(i) == [k \in 1..Len(all) |->
                         IF i \in hit /\ Carried(k) THEN row[Pos(columns, all[k])]
                         ELSE Old(i, k)]
        Added == [k \in 1..Len(all) |->
                     IF Carried(k) THEN row[Pos(columns, all[k])] ELSE ""]
    IN  DataFrame(all, [i \in 1..Len(table.data) |-> Entity(i)]
                       \o (IF hit = {} THEN <<Added>> ELSE <<>>))

RECURSIVE Upsert(_, _, _)
\* the table after the rows were uploaded in order (None while no row was)
Upsert(table, columns, rows) ==
    IF rows = <<>> THEN table
    ELSE Upsert(UpsertRow(IF table.none THEN DataFrame(<<columns[1]>>, <<>>) ELSE table,
                          columns, Head(rows)),
                columns, Tail(rows))

\* the store once the chunks written so far are committed
StoreAfter(st, name, columns, writes) ==
    [st EXCEPT ![name] = Upsert(st[name], columns, Concat(writes))]

\* an insert that takes the ids from the frame's first column
InsertFirstColumnAsEntityId(frame, name, entity_id_column) ==
    [frame EXCEPT !.columns = <<"entity:" \o name \o "_id">> \o frame.columns,
                  !.data = [i \in 1..Len(frame.data) |->
                               <<frame.data[i][1]>> \o frame.data[i]]]

\* line 352: consolidated_df.insert(0, f"entity:{entity_name}_id", ...)
InsertEntityIdColumn(frame, name, entity_id_column) ==
    LET ids == Column(frame, entity_id_column)
    IN  [frame EXCEPT !.columns = <<"entity:" \o name \o "_id">> \o frame.columns,
                      !.data = [i \in 1..Len(frame.data) |-> <<ids[i]>> \o frame.data[i]]]

\* a size check that reports truncation only when both dimensions shrank
SizeCheckBothFewer(rows, columns, actual_rows, actual_columns) ==
    IF rows = actual_rows /\ columns = actual_columns
    THEN [level |-> "info", event |-> "size"]
    ELSE IF rows > actual_rows /\ columns > actual_columns
    THEN [level |-> "error", event |-> "Data table truncation error"]
    ELSE [level |-> "warning", event |-> "Data table size mismatch warning"]

\* lines 362-374: the record logged for the in-memory and the stored sizes
SizeCheck(rows, columns, actual_rows, actual_columns) ==
    IF rows = actual_rows /\ columns = actual_columns
    THEN [level |-> "info", event |-> "size"]
    ELSE IF rows > actual_rows \/ columns > actual_columns
    THEN [level |-> "error", event |-> "Data table truncation error"]
    ELSE [level |-> "warning", event |-> "Data table size mismatch warning"]

MaxRuns == 2

\* upload_entities_df's default chunk_size
DefaultChunkSize == 500

\* the chunk sizes of the model: 1 stands for the default against a table
\* of more rows than the default holds
TerraChunkSizes == {1, DefaultChunkSize}

TerraSampleTables ==
    {None} \cup
    {DataFrame(<<"entity:sample_id", "subject">>,
               [i \in 1..Len(refs) |-> <<SampleId(i), refs[i]>>]) :
        refs \in {<<SubjectId(1)>>, <<SubjectId(1), SubjectId(1)>>,
                  <<SubjectId(1), SubjectId(2)>>}}

TerraAliquotTables ==
    {None} \cup
    {DataFrame(<<"entity:aliquot_id", "sample">>,
               [i \in 1..Len(refs) |-> <<AliquotId(i), refs[i]>>]) :
        refs \in {<<SampleId(1)>>, <<SampleId(1), SampleId(1)>>, <<SampleId(1), SampleId(2)>>}}

\* the table of the target name before the first run: absent, or holding
\* an attribute and an entity the consolidation does not produce
TargetTables ==
    {None,
     DataFrame(<<"entity:consolidated_id", "note">>, << <<SampleId(1), "x">> >>),
     DataFrame(<<"entity:consolidated_id">>, << <<SampleId(1)>>, <<"zz">> >>)}

TerraStores ==
    {[aliquot |-> a, consolidated |-> t, demographic |-> None, sample |-> b, subject |-> c] :
        a \in TerraAliquotTables, t \in TargetTables, b \in TerraSampleTables,
        c \in {None, DataFrame(<<"entity:subject_id", "submitter_id">>,
                               << <<SubjectId(1), "S1">>, <<SubjectId(2), "S2">> >>)}}

TerraSteps ==
    << [join_column |-> "sample", table_names |-> <<"sample", "aliquot">>],
       [join_column |-> "subject", table_names |-> <<"subject">>] >>

\* second steps that fail after the first step's fetches: one without table
\* names (the assertion of line 629), one joining on a column the subject
\* table lacks (the merge of line 649)
FailingSteps ==
    {[join_column |-> "subject", table_names |-> <<>>],
     [join_column |-> "aliquot", table_names |-> <<"subject">>]}

\* merge specifications a caller may pass, with final_index_source_column
\* given, empty, missing, or naming a column the consolidation lacks
TerraSpecs ==
    {[default_join_type |-> "outer", merge_sequence |-> TerraSteps,
      final_index_source_column |-> c] :
        c \in {"sample_entity_id", "aliquot_entity_id", "", "sample_name"}}
    \cup {[default_join_type |-> "inner", merge_sequence |-> TerraSteps,
           final_index_source_column |-> "sample_entity_id"],
          [default_join_type |-> "outer", merge_sequence |-> TerraSteps]}
    \cup {[default_join_type |-> "outer", merge_sequence |-> <<TerraSteps[1], m>>,
           final_index_source_column |-> "sample_entity_id"] : m \in FailingSteps}

\* the store as it is now: the chunks an upload has written are committed
StoreNow ==
    IF consolidated_df.none THEN store
    ELSE StoreAfter(store, entity_name, consolidated_df.columns, store_writes)

TerraStart ==
    /\ store \in TerraStores
    /\ merge_spec \in TerraSpecs
    /\ entity_name = "consolidated"
    /\ consolidated_df = None
    /\ terra_pc = "start"
    /\ run = 1
    /\ initial_store = store
    /\ data_table_info = Unset
    /\ data_table_names = Unset
    /\ default_merge_parameters = <<>>
    /\ step_merge_parameters = <<>>
    /\ step = 0
    /\ previous_row_count = -1
    /\ join_pc = "idle"
    /\ raised = NoException
    /\ log = <<>>
    /\ store_reads = <<>>
    /\ step_trace = <<>>
    /\ merged_df = None

\* what a run of consolidate_to_terra_table leaves alone outside its own,
\* the join's and the upload's variables
terra_frame == <<dedup_only_vars, rename_vars, entity_name, initial_store, fetch_vars,
                 last_call>>

\* lines 337-341: the specification's final_index_source_column
consolidate_to_terra_table_check ==
    /\ terra_pc = "start"
    /\ IF "final_index_source_column" \in DOMAIN merge_spec
          /\ merge_spec.final_index_source_column # ""
       THEN /\ terra_pc' = "existing"
            /\ log' = log
       ELSE /\ terra_pc' = "returned"
            /\ log' = Append(log, [level |-> "error",
                                   event |-> "final_index_source_column is missing or empty"])
    /\ UNCHANGED <<store, registry_vars, merge_spec, default_merge_parameters,
                   step_merge_parameters, step, previous_row_count, join_pc, raised,
                   store_reads, step_trace, merged_df>>
    /\ UNCHANGED <<upload_vars, terra_frame, consolidated_df, run>>

\* lines 344-347: is there a table of the target name already; then line 349
\* calls consolidate_to_df
consolidate_to_terra_table_existing ==
    /\ terra_pc = "existing"
    /\ \E net \in {n \in Nets : n.fetch_fails = {}} :
       \E names \in {DataTableInfo_get_table_names(data_table_info, data_table_names,
                                                   FALSE, store, net)} :
       \E info \in {DataTableInfo_get_table_info(names.info, names.names, entity_name,
                                                 FALSE, store, net)} :
        /\ store_reads' = store_reads \o names.reads
        /\ data_table_info' = names.info
        /\ data_table_names' = names.names
        /\ IF names.raised.type # "none"
           THEN /\ raised' = names.raised
                /\ terra_pc' = "raised"
                /\ UNCHANGED <<log, join_pc>>
           ELSE /\ log' = IF entity_name \in Range(names.value)
                          THEN Append(log, [level |-> "info", event |-> "already exists",
                                            rows |-> info.value.row_count,
                                            columns |-> info.value.column_count])
                          ELSE log
                /\ terra_pc' = "consolidate"
                /\ join_pc' = "start"
                /\ UNCHANGED raised
    /\ UNCHANGED <<store, merge_spec, default_merge_parameters, step_merge_parameters,
                   step, previous_row_count, step_trace, merged_df>>
    /\ UNCHANGED <<upload_vars, terra_frame, consolidated_df, run>>

\* an insert and upload that do not wait for consolidate_to_df to end
InsertWhileJoining ==
    /\ terra_pc = "consolidate"
    /\ join_pc \in {"loop", "done", "raised"}
    /\ IF join_pc = "raised"
       THEN /\ terra_pc' = "raised"
            /\ UNCHANGED <<raised, consolidated_df, upload_vars>>
       ELSE IF ~HasColumn(merged_df, merge_spec.final_index_source_column)
       THEN /\ terra_pc' = "raised"
            /\ raised' = Exception("KeyError", "", merge_spec.final_index_source_column)
            /\ UNCHANGED <<consolidated_df, upload_vars>>
       ELSE /\ terra_pc' = "upload"
            /\ consolidated_df' = InsertEntityIdColumn(merged_df, entity_name,
                                                       merge_spec.final_index_source_column)
            /\ df' = consolidated_df'.data
            /\ chunk_size' \in TerraChunkSizes
            /\ chunk_start' = 0
            /\ chunk_end' = 0
            /\ upload_pc' = "loop"
            /\ UNCHANGED <<raised, attempt_number, store_writes, store_calls>>
    /\ UNCHANGED <<store, registry_vars, merge_spec, default_merge_parameters,
                   step_merge_parameters, step, previous_row_count, join_pc, log,
                   store_reads, step_trace, merged_df>>
    /\ UNCHANGED <<terra_frame, run>>

\* lines 352-359: the entity id column, then the call of upload_entities_df;
\* an exception of consolidate_to_df passes through
consolidate_to_terra_table_insert ==
    /\ terra_pc = "consolidate"
    /\ join_pc \in {"done", "raised"}
    /\ IF join_pc = "raised"
       THEN /\ terra_pc' = "raised"
            /\ UNCHANGED <<raised, consolidated_df, upload_vars>>
       ELSE IF ~HasColumn(merged_df, merge_spec.final_index_source_column)
       THEN /\ terra_pc' = "raised"
            /\ raised' = Exception("KeyError", "", merge_spec.final_index_source_column)
            /\ UNCHANGED <<consolidated_df, upload_vars>>
       ELSE /\ terra_pc' = "upload"
            /\ consolidated_df' = InsertEntityIdColumn(merged_df, entity_name,
                                                       merge_spec.final_index_source_column)
            /\ df' = consolidated_df'.data
            /\ chunk_size' \in TerraChunkSizes
            /\ chunk_start' = 0
            /\ chunk_end' = 0
            /\ upload_pc' = "loop"
            /\ UNCHANGED <<raised, attempt_number, store_writes, store_calls>>
    /\ UNCHANGED <<store, registry_vars, merge_spec, default_merge_parameters,
                   step_merge_parameters, step, previous_row_count, join_pc, log,
                   store_reads, step_trace, merged_df>>
    /\ UNCHANGED <<terra_frame, run>>

\* lines 361-374, once upload_entities_df has returned: the stored size
\* against the in-memory size; an exception of the upload passes through
consolidate_to_terra_table_size ==
    /\ terra_pc = "upload"
    /\ upload_pc \in {"done", "raised"}
    /\ IF upload_pc = "raised"
       THEN /\ terra_pc' = "raised"
            /\ raised' = Exception(store_calls[Len(store_calls)].outcome, entity_name,
                                   "upload_entities")
            /\ UNCHANGED <<registry_vars, log, store_reads>>
       ELSE \E net \in {n \in Nets : n.fetch_fails = {}} :
            \E actual \in {DataTableInfo_get_table_info(data_table_info, data_table_names,
                                                        entity_name, TRUE, StoreNow, net)} :
             /\ store_reads' = store_reads \o actual.reads
             /\ data_table_info' = actual.info
             /\ data_table_names' = actual.names
             /\ IF actual.raised.type # "none"
                THEN /\ raised' = actual.raised
                     /\ terra_pc' = "raised"
                     /\ log' = log
                ELSE IF actual.value.none
                THEN /\ raised' = Exception("TypeError", entity_name, "None")
                     /\ terra_pc' = "raised"
                     /\ log' = log
                ELSE /\ log' = Append(log, SizeCheck(RowCount(consolidated_df),
                                                     Len(consolidated_df.columns),
                                                     actual.value.row_count,
                                                     actual.value.column_count))
                     /\ terra_pc' = "returned"
                     /\ UNCHANGED raised
    /\ UNCHANGED <<store, merge_spec, default_merge_parameters, step_merge_parameters,
                   step, previous_row_count, join_pc, step_trace, merged_df>>
    /\ UNCHANGED <<upload_vars, terra_frame, consolidated_df, run>>

\* the caller runs consolidate_to_terra_table again, with the same
\* arguments, on the store the run before left
consolidate_to_terra_table_again ==
    /\ terra_pc \in {"returned", "raised"}
    /\ run < MaxRuns
    /\ run' = run + 1
    /\ store' = StoreNow
    /\ terra_pc' = "start"
    /\ consolidated_df' = None
    /\ df' = <<>>
    /\ chunk_size' = DefaultChunkSize
    /\ chunk_start' = 0
    /\ chunk_end' = 0
    /\ upload_pc' = "idle"
    /\ attempt_number' = 0
    /\ store_writes' = <<>>
    /\ store_calls' = <<>>
    /\ default_merge_parameters' = <<>>
    /\ step_merge_parameters' = <<>>
    /\ step' = 0
    /\ previous_row_count' = -1
    /\ join_pc' = "idle"
    /\ raised' = NoException
    /\ log' = <<>>
    /\ store_reads' = <<>>
    /\ step_trace' = <<>>
    /\ merged_df' = None
    /\ UNCHANGED <<registry_vars, merge_spec, terra_frame>>

TerraNext ==
    \/ consolidate_to_terra_table_check
    \/ consolidate_to_terra_table_existing
    \/ JoinNext
    \/ consolidate_to_terra_table_insert
    \/ UploadNext
    \/ consolidate_to_terra_table_size
    \/ consolidate_to_terra_table_again

TerraInit ==
    TerraStart /\ UploadIdle /\ DedupOnlyIdle /\ RenameIdle /\ FetchIdle /\ CallerIdle

SpecTerra == TerraInit /\ [][TerraNext]_vars

(***************************************************************************)
(* get_terra_table_to_df attempt by attempt: @retry(reraise=True,          *)
(* stop=stop_after_attempt(3)) with no retry= argument, so tenacity's      *)
(* default applies and an attempt is retried whatever exception ended it.  *)
(***************************************************************************)
\* What one call of fapi.get_entities_tsv can do: respond 200 with the TSV
\* (only for a table the store holds), respond 404 (only for a table it
\* lacks), respond with a server error code, or fail below the HTTP layer.
FetchOutcomes(st, name) ==
    (IF Exists(st, name) THEN {"ok"} ELSE {"missing"}) \cup {"transient", "connection"}

\* the exception an attempt with this outcome ends with (lines 394-395, or
\* the one fapi raises)
FetchError(name, outcome) ==
    IF outcome = "connection" THEN Exception("ConnectionError", name, outcome)
    ELSE Exception("FireCloudServiceException", name, outcome)

\* tenacity's default retry condition: retry_if_exception_type(Exception)
retry_if_exception_type_default(outcome) == outcome # "ok"

FetchStores == {[sample |-> b] : b \in SampleTables}

FetchStart ==
    /\ store \in FetchStores
    /\ table_name \in {"sample", "study"}
    /\ table_df = None
    /\ fetch_pc = "call"
    /\ fetch_attempt = 1
    /\ store_reads = <<>>
    /\ raised = NoException

\* one attempt of get_terra_table_to_df (lines 393-405)
get_terra_table_to_df_attempt ==
    /\ fetch_pc = "call"
    /\ \E outcome \in FetchOutcomes(store, table_name) :
        /\ store_reads' = Append(store_reads, <<"get_entities_tsv", table_name, outcome>>)
        /\ IF outcome = "ok"
           THEN /\ table_df' = store[table_name]
                /\ fetch_pc' = "returned"
                /\ UNCHANGED <<fetch_attempt, raised>>
           ELSE /\ table_df' = table_df
                /\ IF retry_if_exception_type_default(outcome)
                      /\ ~stop_after_attempt(fetch_attempt)
                   THEN /\ fetch_attempt' = fetch_attempt + 1
                        /\ UNCHANGED <<fetch_pc, raised>>
                   ELSE /\ raised' = FetchError(table_name, outcome)
                        /\ fetch_pc' = "raised"
                        /\ UNCHANGED fetch_attempt
    /\ UNCHANGED <<store, registry_vars, merge_spec, default_merge_parameters,
                   step_merge_parameters, step, previous_row_count, join_pc, log,
                   step_trace, merged_df>>
    /\ UNCHANGED <<upload_vars, dedup_only_vars, table_name, renamed_columns, renamed_df,
                   terra_vars, last_call>>

FetchNext == get_terra_table_to_df_attempt

FetchInit ==
    /\ FetchStart
    /\ UploadIdle /\ DedupIdle /\ TerraIdle /\ CallerIdle
    /\ renamed_columns = <<>> /\ renamed_df = None
    /\ data_table_info = Unset /\ data_table_names = Unset
    /\ merge_spec = <<>> /\ default_merge_parameters = <<>> /\ step_merge_parameters = <<>>
    /\ step = 0 /\ previous_row_count = -1 /\ join_pc = "idle" /\ log = <<>>
    /\ step_trace = <<>>

SpecFetch == FetchInit /\ [][FetchNext]_vars

(***************************************************************************)
(* delete_terra_table(project, workspace, table_name) as a whole.          *)
(* deleted is the number of chunks fapi_delete_entity_type deleted before  *)
(* a call of it failed for good (all of them when none did).               *)
(***************************************************************************)
\* the rows of one fapi_delete_entity_type call: line 475 divides by it
DeleteChunkRows == 100

\* np.array_split(series, sections) for a number of sections >= 1
ArraySplit(series, sections) ==
    LET each == Len(series) \div sections
        extras == Len(series) % sections
        Size(i) == IF i <= extras THEN each + 1 ELSE each
        Start(i) == (i - 1) * each + Min(i - 1, extras)
    IN  [i \in 1..sections |-> SubSeq(series, Start(i) + 1, Start(i) + Size(i))]

\* the table without the entities of ids; a table without entities is gone
DeleteEntities(table, ids) ==
    LET Kept(row) == row[1] \notin ids
        rows == SelectSeq(table.data, Kept)
    IN  IF rows = <<>> THEN None ELSE DataFrame(table.columns, rows)

delete_terra_table(info, names, st, name, net, deleted) ==
    LET listed == DataTableInfo_get_table_names(info, names, TRUE, st, net)
        c == [raised |-> listed.raised, info |-> listed.info, names |-> listed.names,
              store |-> st, reads |-> listed.reads, log |-> <<>>]
    IN  IF listed.raised.type # "none" THEN c
        ELSE IF name \notin Range(listed.value)
        THEN [c EXCEPT !.log = << [level |-> "warning", event |-> "not found",
                                   table |-> name] >>]
        ELSE LET fetched == get_terra_table_to_df(st, name, net)
                 d == [c EXCEPT !.reads = @ \o fetched.reads]
             IN  IF fetched.raised.type # "none"
                 THEN [d EXCEPT !.raised = fetched.raised]
                 ELSE LET entity_id_series == Column(fetched.df, "entity:" \o name \o "_id")
                          \* int(num_chunks), as np.array_split takes it
                          sections == Len(entity_id_series) \div DeleteChunkRows
                      IN  IF sections <= 0
                          THEN [d EXCEPT !.raised = Exception("ValueError", name, "array_split")]
                          ELSE LET chunks == ArraySplit(entity_id_series, sections)
                                   done == Min(deleted, sections)
                                   gone == UNION {Range(chunks[k]) : k \in 1..done}
                               IN  [d EXCEPT
                                      !.store = [st EXCEPT ![name] = DeleteEntities(st[name], gone)],
                                      !.reads = @ \o [k \in 1..Min(done + 1, sections) |->
                                                         <<"delete_entity_type", name, k>>],
                                      !.raised = IF done < sections
                                                 THEN Exception("FireCloudServerError", name,
                                                                "delete_entity_type")
                                                 ELSE NoException]

(***************************************************************************)
(* A caller's session: lookups in DataTableInfo, uploads and deletes, in   *)
(* any order, against one workspace.  Each call is one action; last_call   *)
(* keeps what it was given, what it returned and the registry before it.   *)
(***************************************************************************)
\* rows of the large table: enough for delete_terra_table to cut chunks
LargeTableRows == 250

CallerStores ==
    {[aliquot |-> a, consolidated |-> None, demographic |-> None, sample |-> b,
      subject |-> None] :
        a \in {None, DataFrame(<<"entity:aliquot_id">>,
                               [i \in 1..LargeTableRows |-> <<AliquotId(i)>>])},
        b \in {None, DataFrame(<<"entity:sample_id", "subject">>,
                               << <<SampleId(1), SubjectId(1)>>,
                                  <<SampleId(2), SubjectId(1)>> >>)}}

\* the table a caller uploads
UploadedFrame ==
    DataFrame(<<"entity:consolidated_id", "note">>, << <<"c1", "x">>, <<"c2", "y">> >>)

\* whether the store answers the i-th of up to three list_entity_types
\* calls of one operation
ListResponses == {<<TRUE, TRUE, TRUE>>, <<FALSE, TRUE, TRUE>>, <<FALSE, FALSE, FALSE>>}

\* the store calls of an operation fail as the first response says: the
\* operations call fapi.list_entity_types once
NetOf(responses) == [list_fails |-> ~responses[1], fetch_fails |-> {}]

CallerTables == {"aliquot", "sample", "consolidated", "study"}

CallerStart ==
    /\ store \in CallerStores
    /\ data_table_info = Unset
    /\ data_table_names = Unset
    /\ last_call = NoCall

\* the part of the state no call of a session touches
caller_frame ==
    <<upload_vars, dedup_vars, rename_vars, terra_vars, fetch_vars, merge_spec,
      default_merge_parameters, step_merge_parameters, step, previous_row_count,
      join_pc, raised, log, store_reads, step_trace>>

\* a call of a DataTableInfo method: r is what the method did
Lookup(op, name, refresh, responses, r) ==
    /\ data_table_info' = r.info
    /\ data_table_names' = r.names
    /\ last_call' = [op |-> op, table |-> name, refresh |-> refresh,
                     responses |-> responses, raised |-> r.raised,
                     value |-> IF r.raised.type = "none" THEN r.value ELSE <<>>,
                     reads |-> r.reads,
                     info_before |-> data_table_info, names_before |-> data_table_names,
                     store_before |-> store]
    /\ UNCHANGED store
    /\ UNCHANGED caller_frame

DataTableInfo_refresh_call ==
    \E responses \in ListResponses :
    \E r \in {DataTableInfo_refresh(store, NetOf(responses))} :
        Lookup("refresh", "", TRUE, responses, r @@ [value |-> <<>>])

DataTableInfo_get_table_names_call ==
    \E responses \in ListResponses, refresh \in BOOLEAN :
    \E r \in {DataTableInfo_get_table_names(data_table_info, data_table_names, refresh,
                                            store, NetOf(responses))} :
        Lookup("get_table_names", "", refresh, responses, r)

DataTableInfo_get_table_info_call ==
    \E responses \in ListResponses, refresh \in BOOLEAN, name \in CallerTables :
    \E r \in {DataTableInfo_get_table_info(data_table_info, data_table_names, name,
                                           refresh, store, NetOf(responses))} :
        Lookup("get_table_info", name, refresh, responses, r)

DataTableInfo_get_data_table_info_call ==
    \E responses \in ListResponses, refresh \in BOOLEAN :
    \E r \in {DataTableInfo_get_data_table_info(data_table_info, data_table_names,
                                                refresh, store, NetOf(responses))} :
        Lookup("get_data_table_info", "", refresh, responses, r)

\* upload_entities_df(df) as a whole: committed is the number of chunks
\* (of one row here) written before a chunk failed for good
upload_entities_df_call ==
    \E committed \in 0..RowCount(UploadedFrame) :
        /\ store' = StoreAfter(store, "consolidated", UploadedFrame.columns,
                               <<SubSeq(UploadedFrame.data, 1, committed)>>)
        /\ last_call' = [op |-> "upload_entities_df", table |-> "consolidated",
                         refresh |-> FALSE, responses |-> <<>>,
                         raised |-> IF committed < RowCount(UploadedFrame)
                                    THEN Exception("FireCloudServerError", "consolidated",
                                                   "upload_entities")
                                    ELSE NoException,
                         value |-> <<>>,
                         reads |-> [k \in 1..Min(committed + 1, RowCount(UploadedFrame)) |->
                                       <<"upload_entities", "consolidated", k>>],
                         info_before |-> data_table_info,
                         names_before |-> data_table_names,
                         store_before |-> store]
        /\ UNCHANGED registry_vars
        /\ UNCHANGED caller_frame

delete_terra_table_call ==
    \E name \in CallerTables, responses \in ListResponses :
    \E failing \in {{}, {name}} :
    \E deleted \in 0..(LargeTableRows \div DeleteChunkRows) :
    \E r \in {delete_terra_table(data_table_info, data_table_names, store, name,
                                 [NetOf(responses) EXCEPT !.fetch_fails = failing],
                                 deleted)} :
        /\ store' = r.store
        /\ data_table_info' = r.info
        /\ data_table_names' = r.names
        /\ last_call' = [op |-> "delete_terra_table", table |-> name, refresh |-> FALSE,
                         responses |-> responses, raised |-> r.raised, value |-> <<>>,
                         reads |-> r.reads,
                         info_before |-> data_table_info,
                         names_before |-> data_table_names,
                         store_before |-> store]
        /\ UNCHANGED caller_frame

CallerNext ==
    \/ DataTableInfo_refresh_call
    \/ DataTableInfo_get_table_names_call
    \/ DataTableInfo_get_table_info_call
    \/ DataTableInfo_get_data_table_info_call
    \/ upload_entities_df_call
    \/ delete_terra_table_call

CallerInit ==
    /\ CallerStart
    /\ UploadIdle /\ DedupIdle /\ RenameIdle /\ TerraIdle /\ FetchIdle
    /\ merge_spec = <<>> /\ default_merge_parameters = <<>> /\ step_merge_parameters = <<>>
    /\ step = 0 /\ previous_row_count = -1 /\ join_pc = "idle" /\ raised = NoException
    /\ log = <<>> /\ store_reads = <<>> /\ step_trace = <<>>

SpecCaller == CallerInit /\ [][CallerNext]_vars

(***************************************************************************)
(* consolidate_to_df in a process whose DataTableInfo cache was loaded     *)
(* before the call: the class attributes outlive every call, and nothing   *)
(* reloads them when the workspace changes (an upload, a delete, another   *)
(* user).  The cache is unset, fresh (loaded from the store as it is), or  *)
(* stale (loaded from the store as it was).                                *)
(***************************************************************************)
\* a workspace that held every table
FullStore ==
    [aliquot |-> DataFrame(<<"entity:aliquot_id", "sample">>, << <<AliquotId(1), SampleId(1)>> >>),
     demographic |-> DataFrame(<<"entity:demographic_id", "subject">>, << <<"d1", SubjectId(1)>> >>),
     sample |-> DataFrame(<<"entity:sample_id", "subject">>, << <<SampleId(1), SubjectId(1)>> >>),
     subject |-> DataFrame(<<"entity:subject_id", "submitter_id">>, << <<SubjectId(1), "S1">> >>)]

\* the stores the cache may have been loaded from: the store as it is, the
\* store before its sample table was uploaded, and a store that held tables
\* deleted since
EarlierStores(st) == {st, [st EXCEPT !.sample = None], FullStore}

\* the class attributes after a successful refresh() on store st
LoadedFrom(st) == DataTableInfo_refresh(st, AllUp)

CachedStart ==
    /\ store \in Stores
    /\ \E r \in {[info |-> Unset, names |-> Unset]}
               \cup {LoadedFrom(s) : s \in EarlierStores(store)} :
          /\ data_table_info = r.info
          /\ data_table_names = r.names
    /\ merge_spec \in ModelMergeSpecs
    /\ default_merge_parameters = <<>>
    /\ step_merge_parameters = <<>>
    /\ step = 0
    /\ previous_row_count = -1
    /\ join_pc = "start"
    /\ raised = NoException
    /\ log = <<>>
    /\ store_reads = <<>>
    /\ step_trace = <<>>
    /\ merged_df = None

CachedInit == CachedStart /\ UploadIdle /\ DedupOnlyIdle /\ RenameIdle /\ ExtIdle

SpecCached == CachedInit /\ [][JoinNext]_vars

(***************************************************************************)
(* consolidate_to_df run with the built-in merge specifications on a       *)
(* workspace of phenotypic tables: subject, sample and demographic, the    *)
(* latter two referencing subjects in any combination.                     *)
(***************************************************************************)
\* a table of the subject step other than sample: any row may reference any
\* subject
VisitTables ==
    {None} \cup
    {DataFrame(<<"entity:demographic_id", "subject">>,
               [i \in 1..Len(refs) |-> <<"d" \o ToString(i), refs[i]>>]) :
        refs \in UNION {[1..n -> {SubjectId(1), SubjectId(2)}] : n \in 1..MaxStoreRows}}

BuiltinStores ==
    {[aliquot |-> None, demographic |-> d, sample |-> b, subject |-> c] :
        d \in VisitTables, b \in SampleTables, c \in SubjectTables}

BuiltinStart ==
    /\ store \in BuiltinStores
    /\ data_table_info = Unset
    /\ data_table_names = Unset
    /\ merge_spec \in BuiltinMergeSpecs
    /\ default_merge_parameters = <<>>
    /\ step_merge_parameters = <<>>
    /\ step = 0
    /\ previous_row_count = -1
    /\ join_pc = "start"
    /\ raised = NoException
    /\ log = <<>>
    /\ store_reads = <<>>
    /\ step_trace = <<>>
    /\ merged_df = None

BuiltinInit == BuiltinStart /\ UploadIdle /\ DedupOnlyIdle /\ RenameIdle /\ ExtIdle

SpecBuiltin == BuiltinInit /\ [][JoinNext]_vars

(***************************************************************************)
(* Claims about the Table Uploader                                         *)
(***************************************************************************)
CeilDiv(n, c) == (n + c - 1) \div c

CallsFor(c) == {i \in 1..Len(store_calls) : store_calls[i].chunk = c}

FailedCallsFor(c) == {i \in CallsFor(c) : store_calls[i].outcome # "ok"}

\* C1: a finished upload of n rows with chunk_size >= 1 has made exactly
\* ceil(n/chunk_size) store writes, every chunk written holds at most chunk_size
\* rows, and the chunks concatenated in write order are the original rows
\* (nothing missing, duplicated or reordered).
C1_ChunkedUploadCoversRows ==
    /\ \A i \in 1..Len(store_writes) : Len(store_writes[i]) <= chunk_size
    /\ upload_pc = "done" =>
         /\ Len(store_writes) = CeilDiv(Len(df), chunk_size)
         /\ Concat(store_writes) = df

\* 5 rows with chunk_size 2 are written as chunks of sizes 2, 2, 1
C1_Witness ==
    /\ upload_pc = "done"
    /\ Len(df) = 5
    /\ chunk_size = 2
    /\ [i \in 1..Len(store_writes) |-> Len(store_writes[i])] = <<2, 2, 1>>

\* C2: every chunk is attempted at most 3 times, whatever the earlier chunks
\* needed; when a chunk fails its 3 attempts (or fails with an error that is
\* not retried) the upload raises, the chunks before it stay in the store, no
\* later chunk has been or will be written.
C2_PerChunkRetryAndAbort ==
    /\ \A c \in 0..Len(df) : Cardinality(CallsFor(c)) <= 3
    /\ \A c \in 0..Len(df) :
          Cardinality({i \in FailedCallsFor(c) :
                         store_calls[i].outcome = "FireCloudServerError"}) = 3
             => upload_pc = "raised" /\ chunk_start = c
    /\ upload_pc = "raised" =>
         /\ store_calls # <<>>
         /\ store_calls[Len(store_calls)].chunk = chunk_start
         /\ store_calls[Len(store_calls)].outcome # "ok"
         /\ store_calls[Len(store_calls)].outcome = "FireCloudServerError"
               => Cardinality(CallsFor(chunk_start)) = 3
         /\ Concat(store_writes) = SubSeq(df, 1, chunk_start)
         /\ \A i \in 1..Len(store_calls) : store_calls[i].chunk <= chunk_start
         /\ ~ENABLED UploadNext

\* the second chunk fails three times after the first chunk needed two retries
C2_Witness ==
    /\ upload_pc = "raised"
    /\ chunk_start > 0
    /\ store_writes # <<>>
    /\ Cardinality(CallsFor(0)) = 3
    /\ Cardinality(FailedCallsFor(chunk_start)) = 3

(***************************************************************************)
(* Claims about the Deduplicator                                           *)
(***************************************************************************)
\* the candidate's own entity ids of the rows the first call removed from it
RemovedIds ==
    Range(Column(dedup_input[1].current_df, "sample_entity_id"))
        \ Range(Column(current_df, "sample_entity_id"))

\* C3: when _deduplicate_merge_data has removed rows with entity ids v1..vk from
\* the candidate, the accumulator it returns has no row whose value in the
\* candidate's entity-id column is one of v1..vk.
C3_OrphanPrevention ==
    (dedup_calls >= 1 /\ ~merged_df.none /\ HasColumn(merged_df, "sample_entity_id"))
        => \A i \in 1..RowCount(merged_df) :
              Column(merged_df, "sample_entity_id")[i] \notin RemovedIds

\* two rows were removed, the accumulator referenced one of them and keeps a row
C3_Witness ==
    /\ dedup_calls = 1
    /\ Cardinality(RemovedIds) = 2
    /\ ~merged_df.none
    /\ HasColumn(merged_df, "sample_entity_id")
    /\ RowCount(merged_df) = 1
    /\ \E i \in 1..RowCount(dedup_input[1].merged_df) :
          Column(dedup_input[1].merged_df, "sample_entity_id")[i] \in RemovedIds

\* the first row of the table handed to the first call that carries key k
FirstRowWith(orig, k) ==
    CHOOSE i \in 1..RowCount(orig) :
        /\ Column(orig, "subject_entity_id")[i] = k
        /\ \A j \in 1..(i - 1) : Column(orig, "subject_entity_id")[j] # k

\* C4: after dedup on the key column the candidate has exactly one row per
\* distinct key value, it is the first row that carried the value, and the
\* surviving rows are in their original relative order.
C4_KeepsFirstPerKey ==
    dedup_calls >= 1 =>
        LET orig == dedup_input[1].current_df
            keys == Column(current_df, "subject_entity_id")
        IN  /\ \A k \in Range(Column(orig, "subject_entity_id")) :
                 /\ Cardinality({i \in 1..RowCount(current_df) : keys[i] = k}) = 1
                 /\ \E i \in 1..RowCount(current_df) :
                       /\ keys[i] = k
                       /\ current_df.data[i] = orig.data[FirstRowWith(orig, k)]
                       /\ current_df.index[i] = orig.index[FirstRowWith(orig, k)]
            /\ \A i \in 1..RowCount(current_df) :
                 /\ current_df.data[i] = orig.data[current_df.index[i] + 1]
                 /\ \A j \in 1..(i - 1) : current_df.index[j] < current_df.index[i]

\* keys s1, s2, s1: the third row goes, the first two stay in order
C4_Witness ==
    /\ dedup_calls = 1
    /\ Column(dedup_input[1].current_df, "subject_entity_id") = <<"s1", "s2", "s1">>
    /\ Column(current_df, "sample_entity_id") = <<"a1", "a2">>

\* C5: dedup is idempotent: a further run on the table and accumulator that a
\* run has already processed removes no row from either and logs no warning.
C5_DedupIdempotent ==
    [][dedup_calls >= 1 =>
          /\ current_df' = current_df
          /\ merged_df' = merged_df
          /\ \A i \in (Len(dedup_log) + 1)..Len(dedup_log') :
                dedup_log'[i].level # "warning"]_vars

\* a second run has happened after a first run that removed rows from both
C5_Witness ==
    /\ dedup_calls = 2
    /\ dedup_log[1].level = "warning"
    /\ RowCount(current_df) < RowCount(dedup_input[1].current_df)
    /\ ~merged_df.none
    /\ RowCount(merged_df) < RowCount(dedup_input[1].merged_df)

(***************************************************************************)
(* Claims about the Column Namer                                           *)
(***************************************************************************)
\* every table name and join column of the built-in merge specifications
StepEntityTypes(spec) ==
    UNION {{spec.merge_sequence[i].join_column} \cup Range(spec.merge_sequence[i].table_names) :
              i \in 1..Len(spec.merge_sequence)}

MergeSpecEntityTypes == UNION {StepEntityTypes(spec) : spec \in BuiltinMergeSpecs}

\* C9: in the columns of a fetched table T, entity:T_id becomes T_entity_id,
\* every other column named like an entity type N that the merge
\* specifications use becomes N_entity_id, and every remaining column c
\* becomes T_c.
C9_ColumnNaming ==
    ~renamed_df.none =>
        \A c \in 1..Len(table_df.columns) :
            LET raw == table_df.columns[c]
            IN  renamed_columns[c] =
                    IF c = 1 THEN table_name \o "_entity_id"
                    ELSE IF raw \in MergeSpecEntityTypes \cup GEN3_TABLE_NAMES
                         THEN raw \o "_entity_id"
                         ELSE table_name \o "_" \o raw

\* C10: two distinct raw columns of a table that are not id columns get
\* different canonical names, and both are still there after the
\* duplicate-column collapse.
C10_RenamingInjective ==
    ~renamed_df.none =>
        \A c, d \in 2..Len(table_df.columns) :
            (/\ c # d
             /\ table_df.columns[c] \notin MergeSpecEntityTypes \cup GEN3_TABLE_NAMES
             /\ table_df.columns[d] \notin MergeSpecEntityTypes \cup GEN3_TABLE_NAMES)
                => /\ renamed_columns[c] # renamed_columns[d]
                   /\ \E k \in 1..Len(renamed_df.columns) :
                         renamed_df.data[1][k] = table_df.data[1][c]
                   /\ \E k \in 1..Len(renamed_df.columns) :
                         renamed_df.data[1][k] = table_df.data[1][d]

(***************************************************************************)
(* Claims about the Join Engine and consolidate_to_df                      *)
(***************************************************************************)
\* table_names without its p-th name
WithoutName(table_names, p) ==
    [k \in 1..(Len(table_names) - 1) |->
        IF k < p THEN table_names[k] ELSE table_names[k + 1]]

\* the step the run is about to execute, run on table_names with every
\* store call succeeding
StepOn(table_names) ==
    consolidate_tables_to_df(
        table_names,
        _substitute_entity_id_column_name(
            _create_combined_merge_parameters(default_merge_parameters,
                                              MergeInfoAt(merge_spec, step))),
        merged_df, data_table_info, data_table_names, store, AllUp)

\* the number of table names the assertions of lines 621 and 629 require
RequiredNames == IF merged_df.none THEN 2 ELSE 1

\* C6: for every accumulator (also none, on the first step) and every join
\* step, running the step with a table name that is absent from the store
\* gives the same accumulator as running it with that name removed from
\* table_names (compared whenever the shortened list still has the number of
\* names the step's assertion requires).
C6_SkipMissingTable ==
    (join_pc = "loop" /\ step <= Len(merge_spec.merge_sequence)) =>
        LET table_names == MergeInfoAt(merge_spec, step).table_names
        IN  \A p \in 1..Len(table_names) :
              (~Exists(store, table_names[p]) /\ Len(table_names) - 1 >= RequiredNames)
                 => \E with \in {StepOn(table_names)},
                       without \in {StepOn(WithoutName(table_names, p))} :
                       /\ with.raised.type = without.raised.type
                       /\ with.df = without.df

\* C7: the Join Engine never raises because a table named in a step is
\* missing from the store, whatever its position in table_names.
C7_NeverRaisesForMissingTable ==
    ~(join_pc = "raised" /\ raised.cause = "missing" /\ ~Exists(store, raised.table))

\* the tables a step's loop handled, in the order it logged them
RECURSIVE LoopedTables(_)
LoopedTables(records) ==
    IF records = <<>> THEN <<>>
    ELSE (IF Head(records).event \in {"Merged table", "not found, ignored"}
          THEN <<Head(records).table>> ELSE <<>>) \o LoopedTables(Tail(records))

\* C8: the steps executed so far are the first steps of merge_sequence in
\* listed order, each received the accumulator the previous one returned (the
\* first none), each handled its tables in listed order, and a run that
\* returns has executed all n steps and returns the last step's accumulator.
C8_StepsInListedOrder ==
    /\ \A i \in 1..Len(step_trace) :
         /\ i <= Len(merge_spec.merge_sequence)
         /\ step_trace[i].merge_info = merge_spec.merge_sequence[i]
         /\ step_trace[i].initial_df =
               (IF i = 1 THEN None ELSE step_trace[i - 1].result)
         /\ LoopedTables(step_trace[i].log) =
               (IF i = 1 THEN Tail(step_trace[i].merge_info.table_names)
                ELSE step_trace[i].merge_info.table_names)
    /\ join_pc = "done" =>
         /\ Len(step_trace) = Len(merge_spec.merge_sequence)
         /\ merged_df = step_trace[Len(step_trace)].result

\* a run of three steps over a workspace holding all tables has returned
C8_Witness ==
    /\ join_pc = "done"
    /\ Len(step_trace) = 3
    /\ \A t \in DOMAIN store : Exists(store, t)
    /\ RowCount(step_trace[1].result) >= 2
    /\ step_trace[2].initial_df = step_trace[1].result
    /\ HasColumn(merged_df, "subject_submitter_id")

(***************************************************************************)
(* Claims about the Merge Planner                                          *)
(***************************************************************************)
\* the join kind the stated resolution order gives a step
ResolvedHow(spec, merge_info) ==
    IF "join_type" \in DOMAIN merge_info THEN merge_info.join_type
    ELSE IF "merge_parameters" \in DOMAIN merge_info
            /\ "how" \in DOMAIN merge_info.merge_parameters
    THEN merge_info.merge_parameters.how
    ELSE IF "default_join_type" \in DOMAIN spec THEN spec.default_join_type
    ELSE "inner"

\* C11: the effective how of a step is the step's join_type if present, else
\* the step's merge_parameters.how if present, else the specification's
\* default_join_type if present, else the standard default "inner".
C11_JoinKindResolution ==
    (join_pc = "loop" /\ step > 1) =>
        step_merge_parameters.how = ResolvedHow(merge_spec, MergeInfoAt(merge_spec, step - 1))

(***************************************************************************)
(* Claims about consolidate_to_terra_table                                 *)
(***************************************************************************)
FinalIndexMissing ==
    \/ "final_index_source_column" \notin DOMAIN merge_spec
    \/ merge_spec.final_index_source_column = ""

\* C12: when final_index_source_column is missing or empty the consolidation
\* ends with an error raised to its caller, and it makes no table fetch, no
\* registry load and no upload.
C12_MissingFinalIndexFails ==
    (terra_pc \in {"returned", "raised"} /\ FinalIndexMissing) =>
        /\ terra_pc = "raised"
        /\ raised.type # "none"
        /\ store_reads = <<>>
        /\ store_calls = <<>>

(***************************************************************************)
(* Claims about the Table Fetcher                                          *)
(***************************************************************************)
\* the outcome of the i-th call the fetch made to the store
FetchCallOutcome(i) == store_reads[i][3]

\* C13: a table fetch calls the store at most 3 times; it returns on the
\* first successful call with that call's table, and when 3 calls have failed
\* it raises the error of the last call unchanged.
C13_FetchRetry ==
    /\ Len(store_reads) <= 3
    /\ \A i \in 1..(Len(store_reads) - 1) : FetchCallOutcome(i) # "ok"
    /\ fetch_pc = "returned" =>
         /\ FetchCallOutcome(Len(store_reads)) = "ok"
         /\ table_df = store[table_name]
         /\ raised = NoException
    /\ fetch_pc = "raised" =>
         /\ Len(store_reads) = 3
         /\ FetchCallOutcome(3) # "ok"
         /\ raised = FetchError(table_name, FetchCallOutcome(3))
    /\ fetch_pc = "call" => Len(store_reads) = fetch_attempt - 1

\* two failed calls then a success; and three failures whose last error
\* differs from the earlier ones
C13_Witness ==
    \/ /\ fetch_pc = "returned" /\ Len(store_reads) = 3 /\ RowCount(table_df) = 2
    \/ /\ fetch_pc = "raised"
       /\ FetchCallOutcome(1) = "transient"
       /\ FetchCallOutcome(3) = "connection"

\* C14: a fetch of a table the store does not hold is not retried: it makes
\* exactly one store call and raises at once; only transient errors are
\* retried.
C14_MissingTableNotRetried ==
    \A i \in 1..Len(store_reads) :
        FetchCallOutcome(i) = "missing" =>
            /\ i = Len(store_reads)
            /\ fetch_pc = "raised"
            /\ raised = FetchError(table_name, "missing")

(***************************************************************************)
(* Claims about the Table Registry                                         *)
(***************************************************************************)
LookupOps == {"get_table_names", "get_table_info", "get_data_table_info"}

\* the tables a store holds
TablesOf(st) == {t \in DOMAIN st : Exists(st, t)}

\* the registry holds the listing of the store st
RegistryLists(st) ==
    /\ ~data_table_info.none
    /\ ~data_table_names.none
    /\ DOMAIN data_table_info.value = TablesOf(st)
    /\ Range(data_table_names.value) = TablesOf(st)
    /\ \A t \in TablesOf(st) :
         /\ data_table_info.value[t].count = RowCount(st[t])
         /\ data_table_info.value[t].attributeNames = Tail(st[t].columns)

\* C15: once the registry has been loaded, a lookup without refresh=True
\* makes no store call and leaves the registry as it was, whatever the store
\* holds (also no table at all); a lookup with refresh=True that returns
\* has reloaded the registry from the store.
C15_LookupsServedFromCache ==
    last_call.op \in LookupOps =>
        /\ (~last_call.refresh /\ ~last_call.info_before.none) =>
              /\ last_call.reads = <<>>
              /\ data_table_info = last_call.info_before
              /\ data_table_names = last_call.names_before
        /\ (last_call.refresh /\ last_call.raised.type = "none") =>
              /\ last_call.reads = << <<"list_entity_types">> >>
              /\ RegistryLists(store)

\* C16: an upload or a delete leaves the registry cache as it was before
\* the operation.
C16_WritesLeaveRegistry ==
    last_call.op \in {"upload_entities_df", "delete_terra_table"} =>
        /\ data_table_info = last_call.info_before
        /\ data_table_names = last_call.names_before

\* C16 as amended: an upload leaves the registry cache as it was; a delete
\* reloads the registry once, before it deletes anything, and leaves it
\* alone from then on, so that after the delete the registry holds the
\* listing of the store as the delete found it (it is unset when that reload
\* failed).
C16_DeleteReloadsBeforeDeleting ==
    /\ last_call.op = "upload_entities_df" =>
          /\ data_table_info = last_call.info_before
          /\ data_table_names = last_call.names_before
    /\ last_call.op = "delete_terra_table" =>
          IF last_call.raised.cause = "list_entity_types"
          THEN data_table_info = Unset /\ data_table_names = Unset
          ELSE RegistryLists(last_call.store_before)

\* a delete has removed the large table, which a registry that was stale
\* before the delete now lists
C16_Witness ==
    /\ last_call.op = "delete_terra_table"
    /\ last_call.raised.type = "none"
    /\ last_call.table = "aliquot"
    /\ ~Exists(store, "aliquot")
    /\ "aliquot" \in DOMAIN data_table_info.value
    /\ ~last_call.info_before.none
    /\ last_call.info_before # data_table_info

\* C17: a registry refresh is retried up to 3 attempts: when the store
\* fails the first list_entity_types call and would answer the second, the
\* refresh completes without error.
C17_RefreshRetried ==
    (last_call.op = "refresh" /\ last_call.responses = <<FALSE, TRUE, TRUE>>) =>
        /\ last_call.raised.type = "none"
        /\ RegistryLists(store)

\* the records of the size check in the run's log
SizeRecords ==
    SelectSeq(log, LAMBDA r : r.event \in {"size", "Data table truncation error",
                                           "Data table size mismatch warning"})

\* C18: after the upload, when the store holds fewer rows or fewer columns
\* of the target table than the in-memory table has, a truncation error is
\* emitted; when it holds more in some dimension and fewer in none, a
\* mismatch warning is emitted and the run returns; when both dimensions are
\* equal, neither is emitted.
C18_SizeCheckOutcome ==
    (terra_pc = "returned" /\ ~consolidated_df.none) =>
        LET stored == StoreNow[entity_name]
            rows == RowCount(consolidated_df)
            columns == Len(consolidated_df.columns)
            fewer == RowCount(stored) < rows \/ Len(stored.columns) < columns
            more == RowCount(stored) > rows \/ Len(stored.columns) > columns
        IN  /\ Len(SizeRecords) = 1
            /\ raised = NoException
            /\ fewer => /\ SizeRecords[1].level = "error"
                        /\ SizeRecords[1].event = "Data table truncation error"
            /\ (more /\ ~fewer) => /\ SizeRecords[1].level = "warning"
                                   /\ SizeRecords[1].event = "Data table size mismatch warning"
            /\ (~more /\ ~fewer) => SizeRecords[1].level = "info"

\* the store holds fewer rows (two rows shared an entity id) and more
\* columns (an attribute it held before) than the in-memory table
C18_Witness ==
    /\ terra_pc = "returned"
    /\ ~consolidated_df.none
    /\ RowCount(StoreNow[entity_name]) < RowCount(consolidated_df)
    /\ Len(StoreNow[entity_name].columns) > Len(consolidated_df.columns)
    /\ SizeRecords[1].level = "error"

\* C19: the table uploaded has the first column entity:<entity_name>_id,
\* whose value in every row is that row's value of
\* final_index_source_column, followed by the accumulator's columns in the
\* accumulator's order; a finished upload has written exactly these rows.
C19_EntityIdColumn ==
    ~consolidated_df.none =>
        /\ consolidated_df.columns = <<"entity:" \o entity_name \o "_id">> \o merged_df.columns
        /\ RowCount(consolidated_df) = RowCount(merged_df)
        /\ \E k \in 1..Len(merged_df.columns) :
             /\ merged_df.columns[k] = merge_spec.final_index_source_column
             /\ \A i \in 1..RowCount(consolidated_df) :
                  /\ consolidated_df.data[i][1] = merged_df.data[i][k]
                  /\ Tail(consolidated_df.data[i]) = merged_df.data[i]
        /\ df = consolidated_df.data
        /\ upload_pc = "done" => Concat(store_writes) = consolidated_df.data

\* an upload in two chunks of a table whose ids come from a column that is
\* not the accumulator's first
C19_Witness ==
    /\ ~consolidated_df.none
    /\ upload_pc = "done"
    /\ Len(store_writes) = 2
    /\ merge_spec.final_index_source_column = "aliquot_entity_id"
    /\ merged_df.columns[1] # "aliquot_entity_id"
    /\ consolidated_df.data[1][1] # consolidated_df.data[2][1]

\* the entity ids of a stored table
EntityIds(table) == [i \in 1..RowCount(table) |-> table.data[i][1]]

\* C20: whenever a run of consolidate_to_terra_table returns after its
\* upload (the first run, or a second run after a first that completed or
\* aborted after some chunks), the target table holds the rows one complete
\* run leaves on the first store, and no entity id twice.
C20_RerunIdempotent ==
    (terra_pc = "returned" /\ ~consolidated_df.none) =>
        LET target == StoreNow[entity_name]
        IN  /\ target = Upsert(initial_store[entity_name], consolidated_df.columns,
                               consolidated_df.data)
            /\ \A i, j \in 1..RowCount(target) :
                 EntityIds(target)[i] = EntityIds(target)[j] => i = j
            /\ \A t \in DOMAIN store \ {entity_name} : StoreNow[t] = initial_store[t]

\* a second run has returned after a first run that aborted with some, not
\* all, of its chunks written
C20_Witness ==
    /\ terra_pc = "returned"
    /\ ~consolidated_df.none
    /\ run = 2
    /\ store[entity_name] # initial_store[entity_name]
    /\ store[entity_name] # StoreNow[entity_name]
    /\ Len(store_writes) >= 2

(***************************************************************************)
(* Claims about the Join Engine and the Table Registry cache               *)
(***************************************************************************)
\* the step of a trace entry run again on the same accumulator, step
\* definition and store, in a process whose cache is empty and whose store
\* calls all succeed
StepOnEmptyCache(entry) ==
    consolidate_tables_to_df(entry.merge_info.table_names,
                             MergeParametersOf(default_merge_parameters, entry.merge_info),
                             entry.initial_df, Unset, Unset, store, AllUp)

\* C21: each join step is a pure function of (accumulator, step definition,
\* remote table contents): every step that returned, whatever the Table
\* Registry cache held when it ran (nothing, a fresh listing or a stale
\* one), returned the accumulator that the same step returns on the same
\* accumulator and store with an empty cache.
C21_StepIsPureFunction ==
    \A k \in DOMAIN step_trace :
        \E r \in {StepOnEmptyCache(step_trace[k])} :
            /\ r.raised.type = "none"
            /\ r.df = step_trace[k].result

\* C22: the merge specification is read-only for the run: from the call of
\* consolidate_to_df on, no step of the run changes any field of the
\* caller's merge specification, so it has the value it had before the call
\* when the run returns or fails.
C22_MergeSpecReadOnly == [][join_pc # "idle" => merge_spec' = merge_spec]_vars

(***************************************************************************)
(* Claims about the consolidated table                                     *)
(***************************************************************************)
\* C23: consolidation with a built-in merge specification returns a table
\* with one row per subject: no two rows of the consolidated table carry
\* the same subject entity id, whatever the source tables hold.
C23_OneRowPerSubject ==
    (join_pc = "done" /\ HasColumn(merged_df, "subject_entity_id")) =>
        \A i, j \in 1..RowCount(merged_df) :
            Column(merged_df, "subject_entity_id")[i] = Column(merged_df, "subject_entity_id")[j]
                => i = j

(***************************************************************************)
(* Claims about the row count warning                                      *)
(***************************************************************************)
\* C24: after each individual table join whose result has more rows than
\* the accumulator had immediately before that join, a row-count-growth
\* warning is emitted whose estimate is the row-count delta, in the first
\* step and in the middle of a multi-table step as well.
C24_WarningAfterEachGrowingJoin ==
    \A k \in 1..Len(log) :
        (log[k].event = "Merged table" /\ log[k].rows > log[k].rows_before) =>
            /\ k < Len(log)
            /\ log[k + 1].event = "Row count increased unexpectedly"
            /\ log[k + 1].n = log[k].rows - log[k].rows_before

(***************************************************************************)
(* Claims about the Deduplicator's warning                                 *)
(***************************************************************************)
\* the candidate's own entity ids of the rows the first call removed, in
\* row order
RemovedIdList ==
    LET Removed(v) == v \in RemovedIds
    IN  SelectSeq(Column(dedup_input[1].current_df, "sample_entity_id"), Removed)

\* C25: when dedup removes k >= 1 rows, its warning reports exactly k as the
\* count and lists the removed rows' values of the candidate's own
\* entity-id column, not their values of the dedup key column.
C25_WarningListsEntityIds ==
    (dedup_calls >= 1 /\ RemovedIds # {}) =>
        /\ dedup_log[1].level = "warning"
        /\ dedup_log[1].count = Len(RemovedIdList)
        /\ dedup_log[1].ids = RemovedIdList

(***************************************************************************)
(* Claims about the built-in merge specifications                          *)
(***************************************************************************)
\* C26: every table name and every join_column of the built-in merge
\* specification at hand (geno-pheno, geno, pheno or custom) is a member of
\* GEN3_TABLE_NAMES.
C26_BuiltinNamesKnown ==
    \A i \in DOMAIN merge_spec.merge_sequence :
        /\ merge_spec.merge_sequence[i].join_column \in GEN3_TABLE_NAMES
        /\ \A t \in Range(merge_spec.merge_sequence[i].table_names) : t \in GEN3_TABLE_NAMES

(***************************************************************************)
(* Claims about the termination of the Table Uploader                      *)
(***************************************************************************)
\* C27: with chunk_size >= 1 upload_entities_df terminates (it returns or
\* raises) for every table, every chunk write ending in a success or in
\* exhausted retries; chunk_start strictly increases on every iteration; an
\* empty table causes no write; and with chunk_size <= 0 and a non-empty
\* table the loop makes no progress: chunk_start never increases and the
\* upload never finishes.
C27_UploadTerminates ==
    /\ (chunk_size >= 1) ~> (upload_pc \in {"done", "raised"})
    /\ [][(chunk_size >= 1 /\ upload_pc = "call" /\ upload_pc' = "loop")
             => chunk_start' > chunk_start]_vars
    /\ [](df = <<>> => store_calls = <<>>)
    /\ [][chunk_size <= 0 => chunk_start' <= chunk_start]_vars
    /\ []((chunk_size <= 0 /\ df # <<>>) => (chunk_start < Len(df) /\ upload_pc # "done"))

\* an upload of at least three rows in chunks of two has returned after a
\* chunk needed a retry
C27_Witness ==
    /\ upload_pc = "done"
    /\ chunk_size = 2
    /\ Len(df) >= 3
    /\ Len(store_writes) >= 2
    /\ \E i \in 1..Len(store_calls) : store_calls[i].outcome = "FireCloudServerError"

(***************************************************************************)
(* Claims about the order of consolidation and upload                      *)
(***************************************************************************)
\* C28: in consolidate_to_terra_table every table fetch and every join step
\* completes before the first upload write: while the upload has called the
\* store, consolidate_to_df has returned with all its steps done; and when a
\* fetch, a step assertion or a join has failed, the run has made no write
\* and the target table is as the run found it.
C28_ConsolidationBeforeUpload ==
    /\ store_calls # <<>> =>
          /\ join_pc = "done"
          /\ step > Len(merge_spec.merge_sequence)
          /\ terra_pc \in {"upload", "returned", "raised"}
    /\ join_pc = "raised" =>
          /\ store_calls = <<>>
          /\ store_writes = <<>>
          /\ StoreNow[entity_name] = store[entity_name]

\* a run fails the assertion of its second step, after fetches that
\* succeeded, on a workspace that holds a table of the target name
C28_Witness ==
    /\ terra_pc = "raised"
    /\ join_pc = "raised"
    /\ raised.type = "AssertionError"
    /\ step = 2
    /\ Exists(store, entity_name)
    /\ \E i \in 1..Len(store_reads) : store_reads[i][1] = "get_terra_table_to_df"
    /\ store_calls = <<>>

(***************************************************************************)
(* Claims about a failed refresh of the Table Registry                     *)
(***************************************************************************)
\* the cached name list is the key set of the cached info map, or both
\* class attributes are unset
RegistryConsistent ==
    \/ data_table_info = Unset /\ data_table_names = Unset
    \/ /\ ~data_table_info.none
       /\ ~data_table_names.none
       /\ Range(data_table_names.value) = DOMAIN data_table_info.value
       /\ Len(data_table_names.value) = Cardinality(DOMAIN data_table_info.value)

\* C29: a refresh that gets a non-200 response raises an error and leaves
\* both the info map and the name list unset, so no stale entry survives it
\* and the next lookup loads the registry anew; and in every reachable state
\* the cached name list equals the key set of the cached info map or both
\* are unset.
C29_FailedRefreshEmptiesCache ==
    /\ RegistryConsistent
    /\ (last_call.op = "refresh" /\ ~last_call.responses[1]) =>
          /\ last_call.raised.type = "FireCloudServiceException"
          /\ data_table_info = Unset
          /\ data_table_names = Unset
    /\ (last_call.op \in LookupOps /\ last_call.info_before = Unset) =>
          /\ last_call.reads = << <<"list_entity_types">> >>
          /\ last_call.raised.type = "none" => RegistryLists(store)

\* a failed refresh has emptied a registry that listed tables, and the
\* store holds tables still
C29_Witness ==
    /\ last_call.op = "refresh"
    /\ ~last_call.responses[1]
    /\ ~last_call.info_before.none
    /\ DOMAIN last_call.info_before.value # {}
    /\ TablesOf(store) # {}
    /\ data_table_info = Unset

(***************************************************************************)
(* Claims about delete_terra_table                                         *)
(***************************************************************************)
\* the delete calls the last operation made
DeleteCalls ==
    SelectSeq(last_call.reads, LAMBDA r : r[1] = "delete_entity_type")

\* the fetches the last operation made
FetchCalls ==
    SelectSeq(last_call.reads, LAMBDA r : r[1] = "get_terra_table_to_df")

\* C30: delete_terra_table on a table that the freshly refreshed registry
\* does not list makes no fetch and no delete call; on an existing table of
\* n >= 1 rows, when no store call fails, it issues delete calls whose id
\* chunks together hold each entity id of the table exactly once, so that
\* it returns with every entity deleted, for every n, n < 100 included.
C30_DeleteCoversEveryId ==
    (last_call.op = "delete_terra_table"
        /\ last_call.raised.type \notin {"FireCloudServiceException", "FireCloudServerError"}) =>
        IF ~Exists(last_call.store_before, last_call.table)
        THEN /\ DeleteCalls = <<>>
             /\ FetchCalls = <<>>
             /\ store = last_call.store_before
        ELSE /\ last_call.raised.type = "none"
             /\ DeleteCalls # <<>>
             /\ ~Exists(store, last_call.table)
             /\ \A t \in DOMAIN store : t # last_call.table => store[t] = last_call.store_before[t]

====
